---- MODULE Spec2Model ----
(***************************************************************************)
(* Model of the SVG track import pipeline of puckpuck2:                    *)
(*   src/utils/svg-parser.ts, src/utils/track-transformer.ts,              *)
(*   src/utils/matter-factory.ts, src/utils/track-importer.ts.             *)
(*                                                                         *)
(* JavaScript numbers are modelled as extended rationals <<n, d>> in       *)
(* lowest terms with d >= 0: d > 0 is the rational n/d, <<1,0>> is         *)
(* +Infinity, <<-1,0>> is -Infinity and <<0,0>> is NaN.  Arithmetic is     *)
(* exact (floating-point rounding is not modelled).                        *)
(*                                                                         *)
(* JavaScript strings that the code inspects character by character        *)
(* (attribute values) are sequences of one-character strings; null (an     *)
(* absent attribute) is the one-element sequence <<"null">>, which is no   *)
(* string since "null" is not a character.                                 *)
(***************************************************************************)
EXTENDS Integers, Sequences, FiniteSets, TLC

VARIABLES pc, svgText, gameConfig, result, validation,
          scene, registry, fileImport, defaultLoad, message,
          playImportedButton, currentTrack, errorShown,
          world, physics, callError, logged,
          puck, isDragging, startX, startY, diffX, diffY,
          lastValidPosition, isRespawning, currentZoom,
          maxReachedZoomDuringDrag, cameraZoom, tween, pointer,
          previous, called, returned

vars ==
    <<pc, svgText, gameConfig, result, validation,
      scene, registry, fileImport, defaultLoad, message,
      playImportedButton, currentTrack, errorShown,
      world, physics, callError, logged,
      puck, isDragging, startX, startY, diffX, diffY,
      lastValidPosition, isRespawning, currentZoom,
      maxReachedZoomDuringDrag, cameraZoom, tween, pointer,
      previous, called, returned>>

---------------------------------------------------------------------------
(* JavaScript numbers                                                      *)

RECURSIVE Gcd(_, _)
Gcd(a, b) == IF b = 0 THEN a ELSE Gcd(b, a % b)

AbsInt(a) == IF a < 0 THEN -a ELSE a

SignInt(a) == IF a < 0 THEN -1 ELSE IF a > 0 THEN 1 ELSE 0

Norm(n, d) ==
    IF d = 0 THEN <<SignInt(n), 0>>
    ELSE LET g == Gcd(AbsInt(n), AbsInt(d))
             s == IF d < 0 THEN -1 ELSE 1
         IN  <<(s * n) \div g, (s * d) \div g>>

NaN == <<0, 0>>

Infinity == <<1, 0>>

NegInfinity == <<-1, 0>>

Num(i) == <<i, 1>>

IsNaN(a) == a = NaN

IsFinite(a) == a[2] > 0

\* a + b
Add(a, b) ==
    IF IsNaN(a) \/ IsNaN(b) THEN NaN
    ELSE IF a[2] = 0 /\ b[2] = 0 THEN (IF a = b THEN a ELSE NaN)
    ELSE Norm(a[1] * b[2] + b[1] * a[2], a[2] * b[2])

\* -a
Neg(a) == <<-a[1], a[2]>>

\* a - b
Sub(a, b) == Add(a, Neg(b))

\* a * b
Mul(a, b) == Norm(a[1] * b[1], a[2] * b[2])

\* a / b (the sign of a zero divisor is not modelled: x / 0 has the sign of x)
Div(a, b) ==
    IF IsNaN(a) \/ IsNaN(b) THEN NaN
    ELSE IF b[2] = 0 THEN (IF a[2] = 0 THEN NaN ELSE Num(0))
    ELSE IF b[1] = 0 THEN Norm(a[1], 0)
    ELSE Norm(a[1] * b[2] * SignInt(b[1]), a[2] * AbsInt(b[1]))

\* a < b: false when either side is NaN
Lt(a, b) ==
    /\ ~IsNaN(a)
    /\ ~IsNaN(b)
    /\ IF a[2] = 0 /\ b[2] = 0 THEN a[1] < b[1]
       ELSE a[1] * b[2] < b[1] * a[2]

\* a <= b: false when either side is NaN
Le(a, b) == ~IsNaN(a) /\ ~IsNaN(b) /\ ~Lt(b, a)

\* a > b
Gt(a, b) == Lt(b, a)

\* a >= b
Ge(a, b) == Le(b, a)

\* a === b on numbers: NaN equals nothing
StrictEq(a, b) == ~IsNaN(a) /\ ~IsNaN(b) /\ a = b

\* Math.min(a, b)
MathMin(a, b) ==
    IF IsNaN(a) \/ IsNaN(b) THEN NaN ELSE IF Lt(b, a) THEN b ELSE a

\* Math.max(a, b)
MathMax(a, b) ==
    IF IsNaN(a) \/ IsNaN(b) THEN NaN ELSE IF Lt(a, b) THEN b ELSE a

\* Math.abs(a)
MathAbs(a) == <<AbsInt(a[1]), a[2]>>

\* The largest integer of lo .. hi whose square is at most n
RECURSIVE IntSqrt(_, _, _)
IntSqrt(n, lo, hi) ==
    IF lo >= hi THEN lo
    ELSE LET mid == (lo + hi + 1) \div 2
         IN  IF mid * mid <= n THEN IntSqrt(n, mid, hi)
             ELSE IntSqrt(n, lo, mid - 1)

\* The integer part of the square root of a natural number below 2^31
IntegerRoot(n) == IntSqrt(n, 0, IF n < 46340 THEN n ELSE 46340)

\* Math.sqrt(a): exact on the squares of rationals, and cut to one decimal
\* place elsewhere
MathSqrt(a) ==
    IF IsNaN(a) \/ a[1] < 0 THEN NaN
    ELSE IF ~IsFinite(a) THEN Infinity
    ELSE IF IntegerRoot(a[1]) * IntegerRoot(a[1]) = a[1] /\ IntegerRoot(a[2]) * IntegerRoot(a[2]) = a[2]
    THEN Norm(IntegerRoot(a[1]), IntegerRoot(a[2]))
    ELSE Norm(IntegerRoot((a[1] \div a[2]) * 100 + ((a[1] % a[2]) * 100) \div a[2]), 10)

\* null / undefined where a number is expected
NullNum == <<0, -1>>

\* ToNumber of a field that holds a number or undefined: undefined - 1 and
\* undefined * 0.1 are NaN
ToNumber(a) == IF a = NullNum THEN NaN ELSE a

\* Truthiness of a number | null | undefined: 0, NaN, null and undefined are falsy
Truthy(a) == ~IsNaN(a) /\ a # Num(0) /\ a # NullNum

---------------------------------------------------------------------------
(* JavaScript strings                                                      *)

Null == <<"null">>

Digits == {"0", "1", "2", "3", "4", "5", "6", "7", "8", "9"}

DigitValue(c) ==
    CASE c = "0" -> 0 [] c = "1" -> 1 [] c = "2" -> 2 [] c = "3" -> 3
      [] c = "4" -> 4 [] c = "5" -> 5 [] c = "6" -> 6 [] c = "7" -> 7
      [] c = "8" -> 8 [] c = "9" -> 9

\* String.prototype.toUpperCase on one character (the letters the model uses)
UpperChar(c) ==
    CASE c = "a" -> "A" [] c = "b" -> "B" [] c = "c" -> "C" [] c = "d" -> "D"
      [] c = "e" -> "E" [] c = "f" -> "F" [] c = "x" -> "X" [] c = "y" -> "Y"
      [] OTHER -> c

\* String.prototype.toUpperCase
toUpperCase(s) == [i \in DOMAIN s |-> UpperChar(s[i])]

\* String.prototype.toLowerCase on one character (the letters the model uses)
LowerChar(c) ==
    CASE c = "C" -> "c" [] c = "E" -> "e" [] c = "G" -> "g" [] c = "I" -> "i"
      [] c = "L" -> "l" [] c = "N" -> "n" [] c = "R" -> "r" [] c = "T" -> "t"
      [] OTHER -> c

\* String.prototype.toLowerCase
toLowerCase(s) == [i \in DOMAIN s |-> LowerChar(s[i])]

\* The index just past the run of digits of s that starts at index i
RECURSIVE DigitsEnd(_, _)
DigitsEnd(s, i) ==
    IF i <= Len(s) /\ s[i] \in Digits THEN DigitsEnd(s, i + 1) ELSE i

\* The value of the digits s[i..j-1] read as a natural number
RECURSIVE DigitsValue(_, _, _)
DigitsValue(s, i, j) ==
    IF j <= i THEN 0 ELSE 10 * DigitsValue(s, i, j - 1) + DigitValue(s[j - 1])

RECURSIVE Pow10(_)
Pow10(k) == IF k = 0 THEN 1 ELSE 10 * Pow10(k - 1)

\* parseFloat(s): optional sign, digits, optional fraction; the longest
\* numeric prefix is read and the rest ignored; NaN when there is no digit.
\* (Leading white space, exponents and the literal Infinity are not in the
\* modelled documents.)  s[start..intEnd-1] are the integer digits and, when
\* fracEnd > intEnd, s[intEnd] is the point and s[intEnd+1..fracEnd-1] the
\* fraction digits.
ParseFloatValue(s, neg, start, intEnd, fracEnd) ==
    LET fracLen == IF fracEnd > intEnd THEN fracEnd - (intEnd + 1) ELSE 0
        intVal  == DigitsValue(s, start, intEnd)
        fracVal == IF fracEnd > intEnd THEN DigitsValue(s, intEnd + 1, fracEnd) ELSE 0
    IN  IF intEnd = start /\ fracLen = 0 THEN NaN
        ELSE Norm((IF neg THEN -1 ELSE 1) * (intVal * Pow10(fracLen) + fracVal),
                  Pow10(fracLen))

ParseFloatFraction(s, neg, start, intEnd) ==
    ParseFloatValue(s, neg, start, intEnd,
        IF intEnd <= Len(s) /\ s[intEnd] = "."
        THEN DigitsEnd(s, intEnd + 1) ELSE intEnd)

ParseFloatDigits(s, neg, start) ==
    ParseFloatFraction(s, neg, start, DigitsEnd(s, start))

parseFloat(s) ==
    ParseFloatDigits(s, Len(s) >= 1 /\ s[1] = "-",
        IF Len(s) >= 1 /\ s[1] \in {"-", "+"} THEN 2 ELSE 1)

\* a || b on a string-or-null: null and the empty string are falsy
OrElse(a, b) == IF a = Null \/ a = <<>> THEN b ELSE a

---------------------------------------------------------------------------
(* The parsed document (DOM).  A document is the sequence of its elements  *)
(* in document order, which is the order of querySelectorAll("*"); an      *)
(* element is its tag name, its attributes and its text content.           *)

\* Element.getAttribute(name): null when the attribute is absent
getAttribute(element, name) ==
    IF name \in DOMAIN element.attrs THEN element.attrs[name] ELSE Null

\* The indices of the elements of doc that a type selector matches
Matching(doc, tag) == {i \in DOMAIN doc : doc[i].tagName = tag}

\* Document.querySelector(tag) found an element
HasElement(doc, tag) == Matching(doc, tag) # {}

\* Document.querySelector(tag): the first match in document order
querySelector(doc, tag) ==
    doc[CHOOSE i \in Matching(doc, tag) : \A j \in Matching(doc, tag) : i <= j]

\* The subsequence of s at the indices in keep, in order
RECURSIVE SelectInOrder(_, _, _)
SelectInOrder(s, keep, i) ==
    IF i > Len(s) THEN <<>>
    ELSE IF i \in keep THEN <<s[i]>> \o SelectInOrder(s, keep, i + 1)
    ELSE SelectInOrder(s, keep, i + 1)

---------------------------------------------------------------------------
(* svg-parser.ts                                                           *)

TagSvg == <<"s", "v", "g">>
TagRect == <<"r", "e", "c", "t">>
TagCircle == <<"c", "i", "r", "c", "l", "e">>
TagLine == <<"l", "i", "n", "e">>
TagG == <<"g">>
TagPath == <<"p", "a", "t", "h">>
TagDiv == <<"d", "i", "v">>
TagParserError == <<"p", "a", "r", "s", "e", "r", "e", "r", "r", "o", "r">>

\* A function that returned v
Returned(v) == [thrown |-> FALSE, value |-> v]

\* A function that threw new Error(m)
Thrown(m) == [thrown |-> TRUE, message |-> m]

\* The source text is represented by the document DOMParser makes of it:
\* a malformed text yields a document holding a parsererror element
parseSVGText(text) ==
    IF HasElement(text, TagParserError)
    THEN Thrown("SVG parsing failed: "
                    \o querySelector(text, TagParserError).textContent)
    ELSE Returned(text)

\* extractElementsByColor comparing the fill alone, and without folding case
extractElementsByFill(doc, color) ==
    SelectInOrder(doc, {i \in DOMAIN doc : getAttribute(doc[i], "fill") = color}, 1)

\* The test of the forEach callback: fill or stroke equals the colour,
\* both sides upper-cased
MatchesColor(element, color) ==
    LET fill   == getAttribute(element, "fill")
        stroke == getAttribute(element, "stroke")
    IN  \/ (fill # Null /\ toUpperCase(fill) = toUpperCase(color))
        \/ (stroke # Null /\ toUpperCase(stroke) = toUpperCase(color))

extractElementsByColor(doc, color) ==
    SelectInOrder(doc, {i \in DOMAIN doc : MatchesColor(doc[i], color)}, 1)

\* getSVGDimensions after the root lookup
SvgDimensionsOf(width, height) ==
    IF StrictEq(width, Num(0)) \/ StrictEq(height, Num(0))
    THEN Thrown("SVG dimensions are invalid or missing")
    ELSE Returned([width |-> width, height |-> height])

getSVGDimensions(doc) ==
    IF ~HasElement(doc, TagSvg) THEN Thrown("No SVG root element found")
    ELSE SvgDimensionsOf(
             parseFloat(OrElse(getAttribute(querySelector(doc, TagSvg), "width"),
                               <<"0">>)),
             parseFloat(OrElse(getAttribute(querySelector(doc, TagSvg), "height"),
                               <<"0">>)))

\* SvgWorldSizeOf without the test for a size <= 0
SvgWorldSizeOfUnchecked(worldSize) ==
    IF IsNaN(worldSize) THEN NullNum ELSE worldSize

\* getSVGWorldSize after the attribute is known to be a non-empty string
SvgWorldSizeOf(worldSize) ==
    IF IsNaN(worldSize) \/ Le(worldSize, Num(0)) THEN NullNum ELSE worldSize

getSVGWorldSize(doc) ==
    IF ~HasElement(doc, TagSvg) THEN NullNum
    ELSE LET dataSizeAttr == getAttribute(querySelector(doc, TagSvg), "data-size")
         IN  IF dataSizeAttr = Null \/ dataSizeAttr = <<>> THEN NullNum
             ELSE SvgWorldSizeOf(parseFloat(dataSizeAttr))

\* The colour the test fixtures give their track area
ColorFixtureTrackArea == <<"#", "F", "F", "F", "F", "F", "F">>

ColorTrackArea == <<"#", "0", "0", "F", "F", "0", "0">>
ColorWall == <<"#", "0", "0", "0", "0", "0", "0">>
ColorStartLine == <<"#", "0", "0", "0", "0", "F", "F">>
ColorFinishLine == <<"#", "F", "F", "D", "7", "0", "0">>
ColorObstacle == <<"#", "8", "0", "0", "0", "8", "0">>
ColorOutOfBounds == <<"#", "F", "F", "0", "0", "0", "0">>

\* extractTrackElements giving each element to the first bucket it matches
extractTrackElementsExclusive(doc) ==
    [trackAreas  |-> extractElementsByColor(doc, ColorTrackArea),
     walls       |-> SelectInOrder(doc,
                        {i \in DOMAIN doc :
                            /\ MatchesColor(doc[i], ColorWall)
                            /\ ~MatchesColor(doc[i], ColorTrackArea)}, 1),
     obstacles   |-> SelectInOrder(doc,
                        {i \in DOMAIN doc :
                            /\ MatchesColor(doc[i], ColorObstacle)
                            /\ ~MatchesColor(doc[i], ColorTrackArea)
                            /\ ~MatchesColor(doc[i], ColorWall)}, 1),
     startLines  |-> SelectInOrder(doc,
                        {i \in DOMAIN doc :
                            /\ MatchesColor(doc[i], ColorStartLine)
                            /\ ~MatchesColor(doc[i], ColorTrackArea)
                            /\ ~MatchesColor(doc[i], ColorWall)
                            /\ ~MatchesColor(doc[i], ColorObstacle)}, 1),
     finishLines |-> SelectInOrder(doc,
                        {i \in DOMAIN doc :
                            /\ MatchesColor(doc[i], ColorFinishLine)
                            /\ ~MatchesColor(doc[i], ColorTrackArea)
                            /\ ~MatchesColor(doc[i], ColorWall)
                            /\ ~MatchesColor(doc[i], ColorObstacle)
                            /\ ~MatchesColor(doc[i], ColorStartLine)}, 1)]

extractTrackElements(doc) ==
    [trackAreas  |-> extractElementsByColor(doc, ColorTrackArea),
     walls       |-> extractElementsByColor(doc, ColorWall),
     obstacles   |-> extractElementsByColor(doc, ColorObstacle),
     startLines  |-> extractElementsByColor(doc, ColorStartLine),
     finishLines |-> extractElementsByColor(doc, ColorFinishLine)]

\* parseFloat(element.getAttribute(name) || dflt)
NumAttr(element, name, dflt) ==
    parseFloat(OrElse(getAttribute(element, name), dflt))

\* case "circle" of getElementBounds
CircleBounds(cx, cy, r) ==
    [x      |-> Sub(cx, r),
     y      |-> Sub(cy, r),
     width  |-> Mul(r, Num(2)),
     height |-> Mul(r, Num(2))]

\* LineBounds taking the first end point for the corner of the box
LineBoundsFromFirstPoint(x1, y1, x2, y2, strokeWidth) ==
    [x      |-> Sub(x1, Div(strokeWidth, Num(2))),
     y      |-> Sub(y1, Div(strokeWidth, Num(2))),
     width  |-> Add(MathAbs(Sub(x2, x1)), strokeWidth),
     height |-> Add(MathAbs(Sub(y2, y1)), strokeWidth)]

\* case "line" of getElementBounds
LineBounds(x1, y1, x2, y2, strokeWidth) ==
    [x      |-> Sub(MathMin(x1, x2), Div(strokeWidth, Num(2))),
     y      |-> Sub(MathMin(y1, y2), Div(strokeWidth, Num(2))),
     width  |-> Add(MathAbs(Sub(x2, x1)), strokeWidth),
     height |-> Add(MathAbs(Sub(y2, y1)), strokeWidth)]

getElementBounds(element) ==
    LET tagName == toLowerCase(element.tagName)
    IN  IF tagName = TagRect THEN
            [x      |-> NumAttr(element, "x", <<"0">>),
             y      |-> NumAttr(element, "y", <<"0">>),
             width  |-> NumAttr(element, "width", <<"0">>),
             height |-> NumAttr(element, "height", <<"0">>)]
        ELSE IF tagName = TagCircle THEN
            CircleBounds(NumAttr(element, "cx", <<"0">>),
                         NumAttr(element, "cy", <<"0">>),
                         NumAttr(element, "r", <<"0">>))
        ELSE IF tagName = TagLine THEN
            LineBounds(NumAttr(element, "x1", <<"0">>),
                       NumAttr(element, "y1", <<"0">>),
                       NumAttr(element, "x2", <<"0">>),
                       NumAttr(element, "y2", <<"0">>),
                       NumAttr(element, "stroke-width", <<"1">>))
        ELSE [x |-> Num(0), y |-> Num(0), width |-> Num(0), height |-> Num(0)]

getCircleData(element) ==
    IF toLowerCase(element.tagName) # TagCircle
    THEN Thrown("Element is not a circle")
    ELSE Returned([cx     |-> NumAttr(element, "cx", <<"0">>),
                   cy     |-> NumAttr(element, "cy", <<"0">>),
                   radius |-> NumAttr(element, "r", <<"0">>)])

---------------------------------------------------------------------------
(* track-transformer.ts                                                    *)

\* calculateScalingFactor from the scale on
ScalingWithScale(svgSize, config, scale) ==
    [scaleX  |-> scale,
     scaleY  |-> scale,
     offsetX |-> Div(Sub(config.worldWidth, Mul(svgSize.width, scale)), Num(2)),
     offsetY |-> Div(Sub(config.worldHeight, Mul(svgSize.height, scale)), Num(2))]

\* ScalingForTarget with the scale taken from the width alone
ScalingForTargetWidthOnly(svgSize, config, targetWidth, targetHeight) ==
    ScalingWithScale(svgSize, config, Div(targetWidth, svgSize.width))

\* calculateScalingFactor from the target footprint on
ScalingForTarget(svgSize, config, targetWidth, targetHeight) ==
    ScalingWithScale(svgSize, config,
        MathMin(Div(targetWidth, svgSize.width), Div(targetHeight, svgSize.height)))

calculateScalingFactor(svgSize, config, worldSize) ==
    IF Truthy(worldSize)
    THEN ScalingForTarget(svgSize, config, worldSize, worldSize)
    ELSE ScalingForTarget(svgSize, config,
                          Mul(config.worldWidth, Norm(9, 10)),
                          Mul(config.worldHeight, Norm(9, 10)))

transformPoint(x, y, scaling) ==
    [x |-> Add(Mul(x, scaling.scaleX), scaling.offsetX),
     y |-> Add(Mul(y, scaling.scaleY), scaling.offsetY)]

\* svgRectToGameRect once getElementBounds has returned
GameRectOf(bounds, scaling) ==
    LET topLeft == transformPoint(bounds.x, bounds.y, scaling)
    IN  [x      |-> topLeft.x,
         y      |-> topLeft.y,
         width  |-> Mul(bounds.width, scaling.scaleX),
         height |-> Mul(bounds.height, scaling.scaleY)]

svgRectToGameRect(element, scaling) ==
    GameRectOf(getElementBounds(element), scaling)

\* svgCircleToGameCircle once getCircleData has returned or thrown
GameCircleOf(circleData, scaling) ==
    IF circleData.thrown THEN circleData
    ELSE LET center == transformPoint(circleData.value.cx,
                                      circleData.value.cy, scaling)
         IN  Returned([x      |-> center.x,
                       y      |-> center.y,
                       radius |-> Mul(circleData.value.radius,
                                      MathMin(scaling.scaleX, scaling.scaleY))])

svgCircleToGameCircle(element, scaling) ==
    GameCircleOf(getCircleData(element), scaling)

\* One turn of the forEach loop of processTrackArea
TrackAreaStep(acc, rect) ==
    [minX |-> MathMin(acc.minX, rect.x),
     minY |-> MathMin(acc.minY, rect.y),
     maxX |-> MathMax(acc.maxX, Add(rect.x, rect.width)),
     maxY |-> MathMax(acc.maxY, Add(rect.y, rect.height))]

\* The forEach loop of processTrackArea from element i on
RECURSIVE TrackAreaLoop(_, _, _, _)
TrackAreaLoop(elements, scaling, i, acc) ==
    IF i > Len(elements) THEN acc
    ELSE TrackAreaLoop(elements, scaling, i + 1,
             TrackAreaStep(acc, svgRectToGameRect(elements[i], scaling)))

\* The return statement of processTrackArea
TrackBoundsOf(m) ==
    [x      |-> m.minX,
     y      |-> m.minY,
     width  |-> Sub(m.maxX, m.minX),
     height |-> Sub(m.maxY, m.minY)]

processTrackArea(elements, scaling) ==
    IF Len(elements) = 0 THEN Thrown("No track area elements found")
    ELSE Returned(TrackBoundsOf(
             TrackAreaLoop(elements, scaling, 1,
                 [minX |-> Infinity, minY |-> Infinity,
                  maxX |-> NegInfinity, maxY |-> NegInfinity])))

\* Number.prototype.toString of a natural number, as template literals apply it
RECURSIVE NatToString(_)
NatToString(n) ==
    LET digit == CASE n % 10 = 0 -> "0" [] n % 10 = 1 -> "1" [] n % 10 = 2 -> "2"
                   [] n % 10 = 3 -> "3" [] n % 10 = 4 -> "4" [] n % 10 = 5 -> "5"
                   [] n % 10 = 6 -> "6" [] n % 10 = 7 -> "7" [] n % 10 = 8 -> "8"
                   [] n % 10 = 9 -> "9"
    IN  IF n < 10 THEN <<digit>> ELSE NatToString(n \div 10) \o <<digit>>

StrWallDash == <<"w", "a", "l", "l", "-">>

StrObstacleDash == <<"o", "b", "s", "t", "a", "c", "l", "e", "-">>

\* elements.map has 0-based indices; sequences here are 1-based
processWalls(elements, scaling) ==
    [i \in DOMAIN elements |->
        [shape |-> svgRectToGameRect(elements[i], scaling),
         type  |-> "wall",
         id    |-> OrElse(getAttribute(elements[i], "id"),
                          StrWallDash \o NatToString(i - 1))]]

\* The obstacle of one element once its shape has been computed or has thrown
ObstacleWithShape(shape, id) ==
    IF shape.thrown THEN shape
    ELSE Returned([shape |-> shape.value, type |-> "obstacle", id |-> id])

\* The callback of elements.map in processObstacles
ObstacleOf(element, index, scaling) ==
    ObstacleWithShape(
        IF toLowerCase(element.tagName) = TagCircle
        THEN svgCircleToGameCircle(element, scaling)
        ELSE Returned(svgRectToGameRect(element, scaling)),
        OrElse(getAttribute(element, "id"), StrObstacleDash \o NatToString(index)))

\* elements.map of processObstacles: the first throw ends it
ObstaclesOf(each) ==
    LET bad == {i \in DOMAIN each : each[i].thrown}
    IN  IF bad # {}
        THEN each[CHOOSE i \in bad : \A j \in bad : i <= j]
        ELSE Returned([i \in DOMAIN each |-> each[i].value])

processObstacles(elements, scaling) ==
    ObstaclesOf([i \in DOMAIN elements |-> ObstacleOf(elements[i], i - 1, scaling)])

\* GameRect | null and Point | null: null is the record NullShape
NullShape == [null |-> TRUE]

\* processStartFinishLines keeping the last element of each bucket
processStartFinishLinesLast(startElements, finishElements, scaling) ==
    [startLine  |-> IF Len(startElements) > 0
                    THEN svgRectToGameRect(startElements[Len(startElements)], scaling)
                    ELSE NullShape,
     finishLine |-> IF Len(finishElements) > 0
                    THEN svgRectToGameRect(finishElements[Len(finishElements)], scaling)
                    ELSE NullShape]

processStartFinishLines(startElements, finishElements, scaling) ==
    [startLine  |-> IF Len(startElements) > 0
                    THEN svgRectToGameRect(startElements[1], scaling)
                    ELSE NullShape,
     finishLine |-> IF Len(finishElements) > 0
                    THEN svgRectToGameRect(finishElements[1], scaling)
                    ELSE NullShape]

calculateStartPosition(startLine) ==
    IF startLine = NullShape THEN NullShape
    ELSE [x |-> Add(startLine.x, Div(startLine.width, Num(2))),
          y |-> Add(startLine.y, Div(startLine.height, Num(2)))]

calculateFinishPosition(finishLine) ==
    IF finishLine = NullShape THEN NullShape
    ELSE [x |-> Add(finishLine.x, Div(finishLine.width, Num(2))),
          y |-> Add(finishLine.y, Div(finishLine.height, Num(2)))]

---------------------------------------------------------------------------
(* matter-factory.ts.  A body is what Bodies.rectangle / Bodies.circle     *)
(* were called with, and the options given.                                *)

getWallBodyConfig ==
    [isStatic |-> TRUE, restitution |-> Norm(8, 10), friction |-> Norm(1, 10),
     frictionStatic |-> Norm(5, 10), label |-> <<"w", "a", "l", "l">>]

getObstacleBodyConfig ==
    [isStatic |-> TRUE, restitution |-> Norm(9, 10), friction |-> Norm(1, 10),
     frictionStatic |-> Norm(5, 10),
     label |-> <<"o", "b", "s", "t", "a", "c", "l", "e">>]

\* createRectangleBody placing the body at the corner of the rectangle
createRectangleBodyAtCorner(rect, options) ==
    [kind    |-> "rectangle",
     x       |-> rect.x,
     y       |-> rect.y,
     width   |-> rect.width,
     height  |-> rect.height,
     options |-> options]

createRectangleBody(rect, options) ==
    [kind    |-> "rectangle",
     x       |-> Add(rect.x, Div(rect.width, Num(2))),
     y       |-> Add(rect.y, Div(rect.height, Num(2))),
     width   |-> rect.width,
     height  |-> rect.height,
     options |-> options]

createCircleBody(x, y, radius, options) ==
    [kind |-> "circle", x |-> x, y |-> y, radius |-> radius, options |-> options]

\* type guard isGameCircle: "radius" in shape
isGameCircle(shape) == "radius" \in DOMAIN shape

\* if (id) body.label = prefix + id
WithLabel(body, id, prefix) ==
    IF id = Null \/ id = <<>> THEN body
    ELSE [body EXCEPT !.options.label = prefix \o id]

createWallBodies(walls) ==
    [i \in DOMAIN walls |->
        WithLabel(createRectangleBody(walls[i].shape, getWallBodyConfig),
                  walls[i].id, StrWallDash)]

createObstacleBodies(obstacles) ==
    [i \in DOMAIN obstacles |->
        WithLabel(IF isGameCircle(obstacles[i].shape)
                  THEN createCircleBody(obstacles[i].shape.x, obstacles[i].shape.y,
                                        obstacles[i].shape.radius,
                                        getObstacleBodyConfig)
                  ELSE createRectangleBody(obstacles[i].shape, getObstacleBodyConfig),
                  obstacles[i].id, StrObstacleDash)]

\* createInvisibleBoundary building one body along the top of the bounds
createTopBoundary(trackBounds, thickness) ==
    <<createRectangleBody(
        [x |-> trackBounds.x, y |-> Sub(trackBounds.y, thickness),
         width |-> trackBounds.width, height |-> thickness],
        getWallBodyConfig)>>

createInvisibleBoundary(trackBounds, thickness) == <<>>

---------------------------------------------------------------------------
(* track-importer.ts                                                       *)

\* importTrack from createWallBodies to the return statement; an error
\* thrown by processTrackArea or processObstacles ends the try block
ImportTrackAssemble(svgDimensions, scaling, rawElements, trackBounds, walls, obstacles, markers) ==
    IF trackBounds.thrown THEN trackBounds
    ELSE IF obstacles.thrown THEN obstacles
    ELSE Returned(
            [bounds         |-> trackBounds.value,
             walls          |-> createWallBodies(walls),
             obstacles      |-> createObstacleBodies(obstacles.value),
             boundaries     |-> createInvisibleBoundary(trackBounds.value, Num(50)),
             startPosition  |-> calculateStartPosition(markers.startLine),
             finishPosition |-> calculateFinishPosition(markers.finishLine),
             metadata       |->
                 [originalSVGSize |-> svgDimensions,
                  scaleFactor     |-> scaling.scaleX,
                  elementCounts   |->
                      [walls      |-> Len(walls),
                       obstacles  |-> Len(obstacles.value),
                       trackAreas |-> Len(rawElements.trackAreas)]]])

\* ImportTrackProcess without its own track-area check, left to processTrackArea
ImportTrackProcessUnchecked(svgDimensions, scaling, rawElements) ==
    ImportTrackAssemble(svgDimensions, scaling, rawElements,
        processTrackArea(rawElements.trackAreas, scaling),
        processWalls(rawElements.walls, scaling),
        processObstacles(rawElements.obstacles, scaling),
        processStartFinishLines(rawElements.startLines,
                                rawElements.finishLines, scaling))

\* importTrack from the track-area check to processStartFinishLines
ImportTrackProcess(svgDimensions, scaling, rawElements) ==
    IF Len(rawElements.trackAreas) = 0
    THEN Thrown("No track areas found in SVG")
    ELSE ImportTrackAssemble(svgDimensions, scaling, rawElements,
             processTrackArea(rawElements.trackAreas, scaling),
             processWalls(rawElements.walls, scaling),
             processObstacles(rawElements.obstacles, scaling),
             processStartFinishLines(rawElements.startLines,
                                     rawElements.finishLines, scaling))

\* importTrack from getSVGWorldSize to extractTrackElements
ImportTrackScale(doc, svgDimensions, config) ==
    IF svgDimensions.thrown THEN svgDimensions
    ELSE ImportTrackProcess(svgDimensions.value,
             calculateScalingFactor(svgDimensions.value, config,
                                    getSVGWorldSize(doc)),
             extractTrackElements(doc))

\* importTrack once parseSVGText has returned or thrown
ImportTrackParsed(parsed, config) ==
    IF parsed.thrown THEN parsed
    ELSE ImportTrackScale(parsed.value, getSVGDimensions(parsed.value), config)

\* The try block of importTrack: the track, or the first error thrown
ImportTrackTry(text, config) == ImportTrackParsed(parseSVGText(text), config)

\* ImportTrackCatch with the catch clause rethrowing the error as it is
ImportTrackCatchRethrow(tried) == tried

\* The catch clause of importTrack; every error the try block throws is an Error
ImportTrackCatch(tried) ==
    IF tried.thrown
    THEN Thrown("Track import failed: " \o tried.message)
    ELSE tried

\* importTrack keeping the track of the last call for the same source text,
\* whatever the viewport
importTrackMemoized(text, config) ==
    IF pc = "imported" /\ svgText = text THEN result
    ELSE ImportTrackCatch(ImportTrackTry(text, config))

importTrack(text, config) == ImportTrackCatch(ImportTrackTry(text, config))

\* validateTrackData without its warnings
validateTrackDataErrorsOnly(track) ==
    LET errors ==
            IF Le(track.bounds.width, Num(0)) \/ Le(track.bounds.height, Num(0))
            THEN <<"Track bounds are invalid">> ELSE <<>>
    IN  [isValid |-> Len(errors) = 0, errors |-> errors, warnings |-> <<>>]

\* validateTrackData: errors and warnings in the order they are pushed
validateTrackData(track) ==
    LET errors ==
            IF Le(track.bounds.width, Num(0)) \/ Le(track.bounds.height, Num(0))
            THEN <<"Track bounds are invalid">> ELSE <<>>
        warnings ==
            (IF track.startPosition = NullShape
             THEN <<"No start line found in track">> ELSE <<>>)
            \o (IF track.finishPosition = NullShape
                THEN <<"No finish line found in track">> ELSE <<>>)
            \o (IF Len(track.walls) = 0
                THEN <<"No walls found in track">> ELSE <<>>)
            \o (IF Len(track.obstacles) = 0
                THEN <<"No obstacles found in track">> ELSE <<>>)
            \o (IF Gt(track.bounds.width, Num(10000))
                   \/ Gt(track.bounds.height, Num(10000))
                THEN <<"Track is very large and may impact performance">>
                ELSE <<>>)
    IN  [isValid |-> Len(errors) = 0, errors |-> errors, warnings |-> warnings]

---------------------------------------------------------------------------
(* The physics world of a scene.  A scene is [physics, world]: physics     *)
(* says whether scene.matter and scene.matter.world exist, world is the    *)
(* list of bodies of the Matter world (Composite.bodies), to which         *)
(* world.add appends and from which world.remove takes the first           *)
(* occurrence of the body, if there is one.                                *)

\* scene.matter.world.add(body)
WorldAdd(composite, body) == Append(composite, body)

\* The first index of body in composite, 0 if there is none
IndexOfBody(composite, body) ==
    IF \E i \in DOMAIN composite : composite[i] = body
    THEN CHOOSE i \in DOMAIN composite :
            composite[i] = body /\ \A j \in 1..(i - 1) : composite[j] # body
    ELSE 0

\* composite without its element at index at
WorldWithout(composite, at) ==
    IF at = 0 THEN composite
    ELSE SubSeq(composite, 1, at - 1) \o SubSeq(composite, at + 1, Len(composite))

\* scene.matter.world.remove(body)
WorldRemove(composite, body) == WorldWithout(composite, IndexOfBody(composite, body))

\* bodies.forEach((body) => scene.matter.world.add(body)), from index i
RECURSIVE AddEach(_, _, _)
AddEach(composite, bodies, i) ==
    IF i > Len(bodies) THEN composite
    ELSE AddEach(WorldAdd(composite, bodies[i]), bodies, i + 1)

\* bodies.forEach((body) => scene.matter.world.remove(body)), from index i
RECURSIVE RemoveEach(_, _, _)
RemoveEach(composite, bodies, i) ==
    IF i > Len(bodies) THEN composite
    ELSE RemoveEach(WorldRemove(composite, bodies[i]), bodies, i + 1)

\* addBodiesWithPhysics: the scene afterwards, or the error thrown
addBodiesWithPhysics(scn, bodies) ==
    IF ~scn.physics THEN Thrown("Matter.js physics not initialized in scene")
    ELSE Returned([scn EXCEPT !.world = AddEach(scn.world, bodies, 1)])

\* removeBodiesFromPhysics: the scene afterwards
removeBodiesFromPhysics(scn, bodies) ==
    IF ~scn.physics THEN scn
    ELSE [scn EXCEPT !.world = RemoveEach(scn.world, bodies, 1)]

\* addTrackToScene: the scene afterwards, or the error thrown.  The scene
\* has physics from line 136 on, so the three calls of addBodiesWithPhysics
\* return; the graphics of createTrackVisuals are not part of the state.
addTrackToScene(track, scn) ==
    IF ~scn.physics THEN Thrown("Scene does not have Matter.js physics enabled")
    ELSE addBodiesWithPhysics(
            addBodiesWithPhysics(
                addBodiesWithPhysics(scn, track.walls).value,
                track.obstacles).value,
            track.boundaries)

\* removeTrackFromScene: the scene afterwards
removeTrackFromScene(track, scn) ==
    IF ~scn.physics THEN scn
    ELSE removeBodiesFromPhysics(
            removeBodiesFromPhysics(
                removeBodiesFromPhysics(scn, track.walls),
                track.obstacles),
            track.boundaries)

\* createGameConfig(scene): the size of the scene's main camera
createGameConfig(camera) ==
    [worldWidth |-> camera.width, worldHeight |-> camera.height]

---------------------------------------------------------------------------
(* game-logic.ts                                                           *)

\* isOutOfBounds with >= for > and <= for <: the edges are out of bounds
isOutOfBoundsOrOnEdge(position, trackBounds) ==
    \/ Le(position.x, trackBounds.x)
    \/ Ge(position.x, Add(trackBounds.x, trackBounds.width))
    \/ Le(position.y, trackBounds.y)
    \/ Ge(position.y, Add(trackBounds.y, trackBounds.height))

isOutOfBounds(position, trackBounds) ==
    \/ Lt(position.x, trackBounds.x)
    \/ Gt(position.x, Add(trackBounds.x, trackBounds.width))
    \/ Lt(position.y, trackBounds.y)
    \/ Gt(position.y, Add(trackBounds.y, trackBounds.height))

getDefaultRespawnPosition(trackBounds) ==
    [x |-> Add(trackBounds.x, Div(trackBounds.width, Num(2))),
     y |-> Add(trackBounds.y, Div(trackBounds.height, Num(2)))]

\* getRespawnPosition preferring the start position to the last valid one
getRespawnPositionStartFirst(last, startPosition, trackBounds) ==
    IF startPosition # NullShape THEN startPosition
    ELSE IF last # NullShape THEN last
    ELSE getDefaultRespawnPosition(trackBounds)

getRespawnPosition(last, startPosition, trackBounds) ==
    IF last # NullShape THEN last
    ELSE IF startPosition # NullShape THEN startPosition
    ELSE getDefaultRespawnPosition(trackBounds)

\* isControlAllowed without the test of isRespawning
isControlAllowedWhileRespawning(gameObject, thePuck, controlState) ==
    gameObject = thePuck

isControlAllowed(gameObject, thePuck, controlState) ==
    gameObject = thePuck /\ ~controlState.isRespawning

\* !!controlState.isDragging
isDragAllowed(gameObject, thePuck, controlState) ==
    /\ isControlAllowed(gameObject, thePuck, controlState)
    /\ controlState.isDragging

---------------------------------------------------------------------------
(* balance.ts and camera-logic.ts                                          *)

CAMERA_ZOOM == [MIN |-> Norm(3, 10), MAX |-> Norm(8, 10), DEFAULT |-> Norm(55, 100)]

SLINGSHOT == [MAX_LENGTH |-> Num(500), VELOCITY_MULTIPLIER |-> Norm(1, 10)]

PHYSICS == [MAX_VELOCITY |-> Num(50)]

MOUSE == [ZOOM_SPEED |-> Norm(2, 10)]

\* getZoomConfig(): the zoom levels of balance.ts
getZoomConfig ==
    [minZoom     |-> CAMERA_ZOOM.MIN,
     maxZoom     |-> CAMERA_ZOOM.MAX,
     defaultZoom |-> CAMERA_ZOOM.DEFAULT]

calculateSlingZoom(slingData, zoomConfig) ==
    IF Le(slingData.length, Num(0)) THEN zoomConfig.defaultZoom
    ELSE MathMax(
            Sub(zoomConfig.defaultZoom,
                Mul(MathMin(Div(slingData.length, slingData.maxLength), Num(1)),
                    Sub(zoomConfig.defaultZoom, zoomConfig.minZoom))),
            zoomConfig.minZoom)

calculateSpeedZoom(speedData, zoomConfig) ==
    IF Le(speedData.velocity, Num(0)) THEN zoomConfig.maxZoom
    ELSE MathMax(
            Sub(zoomConfig.maxZoom,
                Mul(MathMin(Div(speedData.velocity, speedData.maxVelocity), Num(1)),
                    Sub(zoomConfig.maxZoom, zoomConfig.minZoom))),
            zoomConfig.minZoom)

calculateSlingLength(fromX, fromY, endX, endY) ==
    MathSqrt(Add(Mul(Sub(endX, fromX), Sub(endX, fromX)),
                 Mul(Sub(endY, fromY), Sub(endY, fromY))))

calculateVelocityMagnitude(velocityX, velocityY) ==
    MathSqrt(Add(Mul(velocityX, velocityX), Mul(velocityY, velocityY)))

shouldUpdateZoomDuringDrag(zoom, targetZoom) == Lt(targetZoom, zoom)

---------------------------------------------------------------------------
(* The documents and viewports the model imports                          *)

Element(tag, attributes) ==
    [tagName |-> tag, attrs |-> attributes, textContent |-> ""]

\* name="value", or nothing when value is null
Attribute(name, value) == IF value = Null THEN <<>> ELSE name :> value

\* a track-area rectangle
AreaRect ==
    Element(TagRect,
        ("id" :> <<"a", "r", "e", "a">>)
        @@ ("x" :> <<"1", "0">>)
        @@ ("y" :> <<"1", "0">>)
        @@ ("width" :> <<"8", "0">>)
        @@ ("height" :> <<"3", "0">>)
        @@ ("fill" :> <<"#", "0", "0", "F", "F", "0", "0">>))

\* a track-area rectangle, colour in lower case, no x
AreaRectLower ==
    Element(TagRect,
        ("y" :> <<"5">>)
        @@ ("width" :> <<"4", "0">>)
        @@ ("height" :> <<"4", "0">>)
        @@ ("fill" :> <<"#", "0", "0", "f", "f", "0", "0">>))

\* a track-area rectangle of negative width
AreaRectNegative ==
    Element(TagRect,
        ("x" :> <<"9", "5">>)
        @@ ("y" :> <<"1", "0">>)
        @@ ("width" :> <<"-", "2", "0">>)
        @@ ("height" :> <<"1", "0">>)
        @@ ("fill" :> <<"#", "0", "0", "F", "F", "0", "0">>))

\* a track-area rectangle whose x is not a number
AreaRectMalformed ==
    Element(TagRect,
        ("x" :> <<"a", "b", "c">>)
        @@ ("y" :> <<"2", "0">>)
        @@ ("width" :> <<"3", "0">>)
        @@ ("height" :> <<"1", "0">>)
        @@ ("fill" :> <<"#", "0", "0", "F", "F", "0", "0">>))

\* a group in the track-area colour
AreaGroup ==
    Element(TagG,
        ("fill" :> <<"#", "0", "0", "F", "F", "0", "0">>))

\* a circle stroked in the track-area colour
AreaCircleStroke ==
    Element(TagCircle,
        ("cx" :> <<"6", "0">>)
        @@ ("cy" :> <<"2", "5">>)
        @@ ("r" :> <<"2", "0">>)
        @@ ("fill" :> <<"n", "o", "n", "e">>)
        @@ ("stroke" :> <<"#", "0", "0", "F", "f", "0", "0">>))

\* a wall
WallRect ==
    Element(TagRect,
        ("id" :> <<"w", "1">>)
        @@ ("x" :> <<"1", "0">>)
        @@ ("y" :> <<"5">>)
        @@ ("width" :> <<"4", "0">>)
        @@ ("height" :> <<"5">>)
        @@ ("fill" :> <<"#", "0", "0", "0", "0", "0", "0">>))

\* the malformed wall of the importer's edge-case test
WallRectMalformed ==
    Element(TagRect,
        ("x" :> <<"a", "b", "c">>)
        @@ ("y" :> <<"d", "e", "f">>)
        @@ ("width" :> <<"1", "0", "0">>)
        @@ ("height" :> <<"1", "0", "0">>)
        @@ ("fill" :> <<"#", "0", "0", "0", "0", "0", "0">>))

\* a path in the wall colour
WallPath ==
    Element(TagPath,
        ("fill" :> <<"#", "0", "0", "0", "0", "0", "0">>))

\* a wall drawn as a line, stroke width unspecified
WallLine ==
    Element(TagLine,
        ("x1" :> <<"9", "0">>)
        @@ ("y1" :> <<"1", "0">>)
        @@ ("x2" :> <<"2", "0">>)
        @@ ("y2" :> <<"1", "0">>)
        @@ ("stroke" :> <<"#", "0", "0", "0", "0", "0", "0">>))

\* a circular obstacle
ObstacleCircle ==
    Element(TagCircle,
        ("id" :> <<"o", "1">>)
        @@ ("cx" :> <<"5", "0">>)
        @@ ("cy" :> <<"2", "5">>)
        @@ ("r" :> <<"5">>)
        @@ ("fill" :> <<"#", "8", "0", "0", "0", "8", "0">>))

\* a circular obstacle whose radius is not a number
ObstacleCircleMalformed ==
    Element(TagCircle,
        ("cx" :> <<"3", "0">>)
        @@ ("cy" :> <<"2", "5">>)
        @@ ("r" :> <<"b", "i", "g">>)
        @@ ("fill" :> <<"#", "8", "0", "0", "0", "8", "0">>))

\* a rectangular obstacle
ObstacleRect ==
    Element(TagRect,
        ("x" :> <<"7", "0">>)
        @@ ("y" :> <<"2", "0">>)
        @@ ("width" :> <<"4", ".", "5">>)
        @@ ("height" :> <<"5">>)
        @@ ("fill" :> <<"#", "8", "0", "0", "0", "8", "0">>))

\* a start line
StartLine ==
    Element(TagLine,
        ("x1" :> <<"1", "0">>)
        @@ ("y1" :> <<"1", "5">>)
        @@ ("x2" :> <<"2", "0">>)
        @@ ("y2" :> <<"2", "5">>)
        @@ ("stroke" :> <<"#", "0", "0", "0", "0", "F", "F">>))

\* a start line with a stroke width
StartLineWide ==
    Element(TagLine,
        ("x1" :> <<"2", "0">>)
        @@ ("y1" :> <<"1", "5">>)
        @@ ("x2" :> <<"1", "0">>)
        @@ ("y2" :> <<"1", "5">>)
        @@ ("stroke" :> <<"#", "0", "0", "0", "0", "f", "f">>)
        @@ ("stroke-width" :> <<"1", "0">>))

\* a finish line
FinishRect ==
    Element(TagRect,
        ("x" :> <<"8", "5">>)
        @@ ("y" :> <<"1", "0">>)
        @@ ("width" :> <<"2">>)
        @@ ("height" :> <<"3", "0">>)
        @@ ("fill" :> <<"#", "F", "F", "D", "7", "0", "0">>))

\* an element in no role colour
RedRect ==
    Element(TagRect,
        ("x" :> <<"0">>)
        @@ ("y" :> <<"0">>)
        @@ ("width" :> <<"1", "0", "0">>)
        @@ ("height" :> <<"5", "0">>)
        @@ ("fill" :> <<"#", "F", "F", "0", "0", "0", "0">>))

\* the white rectangle of the test fixtures
WhiteRect ==
    Element(TagRect,
        ("x" :> <<"1", "0">>)
        @@ ("y" :> <<"1", "0">>)
        @@ ("width" :> <<"8", "0">>)
        @@ ("height" :> <<"3", "0">>)
        @@ ("fill" :> <<"#", "F", "F", "F", "F", "F", "F">>))

\* a track-area rectangle of height 0
AreaRectFlat ==
    Element(TagRect,
        ("x" :> <<"1", "0">>)
        @@ ("y" :> <<"1", "0">>)
        @@ ("width" :> <<"8", "0">>)
        @@ ("height" :> <<"0">>)
        @@ ("fill" :> <<"#", "0", "0", "F", "F", "0", "0">>))

\* a second finish line
FinishLineLow ==
    Element(TagRect,
        ("x" :> <<"8", "5">>)
        @@ ("y" :> <<"4", "0">>)
        @@ ("width" :> <<"4">>)
        @@ ("height" :> <<"6">>)
        @@ ("fill" :> <<"#", "f", "f", "d", "7", "0", "0">>))

ElementPool ==
    {AreaRect, AreaRectLower, AreaRectNegative, AreaRectMalformed,
     AreaGroup, AreaCircleStroke, WallRect, WallRectMalformed,
     WallPath, WallLine, ObstacleCircle, ObstacleCircleMalformed,
     ObstacleRect, StartLine, StartLineWide, FinishRect,
     RedRect, WhiteRect, AreaRectFlat}

\* The elements used where the root element varies
FewElements == {AreaRect, WallRect}

WidthAttrs ==
    {Null, <<"0">>, <<"a", "b", "c">>, <<"1", "0", "0">>, <<"-", "1", "0", "0">>, <<"2", "0", "0", "p", "x">>}

HeightAttrs == {Null, <<"5", "0">>, <<"0">>, <<"-", "5", "0">>}

DataSizeAttrs == {Null, <<"a", "b", "c">>, <<"-", "1">>, <<"0">>, <<"2", "0", "0">>}

SvgRoot(width, height, dataSize) ==
    Element(TagSvg, Attribute("width", width) @@ Attribute("height", height)
                    @@ Attribute("data-size", dataSize))

\* A root in a role colour
SvgRootFilled ==
    Element(TagSvg, ("width" :> <<"1", "0", "0">>) @@ ("height" :> <<"5", "0">>) @@ ("fill" :> <<"#", "0", "0", "F", "F", "0", "0">>))

DivRoot == Element(TagDiv, <<>>)

ParserError ==
    [tagName |-> TagParserError, attrs |-> <<>>, textContent |-> "error on line 1"]

\* The roots used where the elements vary
MainRoots ==
    {SvgRoot(<<"1", "0", "0">>, <<"5", "0">>, Null),
     SvgRoot(<<"1", "0", "0">>, <<"5", "0">>, <<"2", "0", "0">>),
     SvgRoot(<<"-", "1", "0", "0">>, <<"-", "5", "0">>, Null),
     SvgRootFilled}

AllRoots ==
    {SvgRoot(w, h, d) : w \in WidthAttrs, h \in HeightAttrs, d \in DataSizeAttrs}
        \cup {DivRoot, SvgRootFilled}

MaxElements == 2

\* The sequences of at most n elements of S
RECURSIVE SeqsUpTo(_, _)
SeqsUpTo(S, n) ==
    IF n = 0 THEN {<<>>}
    ELSE LET shorter == SeqsUpTo(S, n - 1)
         IN  shorter \cup {Append(q, e) : q \in shorter, e \in S}

\* MOCK_TRACK_SVG: the element the fixture calls its track area
MockTrackArea ==
    Element(TagRect,
        ("id" :> <<"t", "r", "a", "c", "k", "-", "a", "r", "e", "a">>)
        @@ ("x" :> <<"1", "0", "0">>)
        @@ ("y" :> <<"1", "0", "0">>)
        @@ ("width" :> <<"8", "0", "0">>)
        @@ ("height" :> <<"3", "0", "0">>)
        @@ ("fill" :> <<"#", "F", "F", "F", "F", "F", "F">>))

\* the fixture's track area, in TRACK_COLORS.TRACK_AREA
MockTrackAreaGreen ==
    Element(TagRect,
        ("id" :> <<"t", "r", "a", "c", "k", "-", "a", "r", "e", "a">>)
        @@ ("x" :> <<"1", "0", "0">>)
        @@ ("y" :> <<"1", "0", "0">>)
        @@ ("width" :> <<"8", "0", "0">>)
        @@ ("height" :> <<"3", "0", "0">>)
        @@ ("fill" :> <<"#", "0", "0", "F", "F", "0", "0">>))

\* MOCK_TRACK_SVG: wall-1
MockWall1 ==
    Element(TagRect,
        ("id" :> <<"w", "a", "l", "l", "-", "1">>)
        @@ ("x" :> <<"1", "0", "0">>)
        @@ ("y" :> <<"8", "0">>)
        @@ ("width" :> <<"4", "0", "0">>)
        @@ ("height" :> <<"2", "0">>)
        @@ ("fill" :> <<"#", "0", "0", "0", "0", "0", "0">>))

\* MOCK_TRACK_SVG: wall-2
MockWall2 ==
    Element(TagRect,
        ("id" :> <<"w", "a", "l", "l", "-", "2">>)
        @@ ("x" :> <<"1", "0", "0">>)
        @@ ("y" :> <<"4", "0", "0">>)
        @@ ("width" :> <<"4", "0", "0">>)
        @@ ("height" :> <<"2", "0">>)
        @@ ("fill" :> <<"#", "0", "0", "0", "0", "0", "0">>))

\* MOCK_TRACK_SVG: obstacle-1
MockObstacle1 ==
    Element(TagCircle,
        ("id" :> <<"o", "b", "s", "t", "a", "c", "l", "e", "-", "1">>)
        @@ ("cx" :> <<"3", "0", "0">>)
        @@ ("cy" :> <<"2", "5", "0">>)
        @@ ("r" :> <<"3", "0">>)
        @@ ("fill" :> <<"#", "8", "0", "0", "0", "8", "0">>))

\* MOCK_TRACK_SVG: obstacle-2
MockObstacle2 ==
    Element(TagRect,
        ("id" :> <<"o", "b", "s", "t", "a", "c", "l", "e", "-", "2">>)
        @@ ("x" :> <<"5", "0", "0">>)
        @@ ("y" :> <<"2", "0", "0">>)
        @@ ("width" :> <<"5", "0">>)
        @@ ("height" :> <<"5", "0">>)
        @@ ("fill" :> <<"#", "8", "0", "0", "0", "8", "0">>))

\* MOCK_TRACK_SVG: start-line
MockStartLine ==
    Element(TagRect,
        ("id" :> <<"s", "t", "a", "r", "t", "-", "l", "i", "n", "e">>)
        @@ ("x" :> <<"1", "5", "0">>)
        @@ ("y" :> <<"1", "0", "0">>)
        @@ ("width" :> <<"1", "0">>)
        @@ ("height" :> <<"3", "0", "0">>)
        @@ ("fill" :> <<"#", "0", "0", "0", "0", "F", "F">>))

\* MOCK_TRACK_SVG: finish-line
MockFinishLine ==
    Element(TagRect,
        ("id" :> <<"f", "i", "n", "i", "s", "h", "-", "l", "i", "n", "e">>)
        @@ ("x" :> <<"8", "4", "0">>)
        @@ ("y" :> <<"1", "0", "0">>)
        @@ ("width" :> <<"1", "0">>)
        @@ ("height" :> <<"3", "0", "0">>)
        @@ ("fill" :> <<"#", "F", "F", "D", "7", "0", "0">>))

\* the rectangle of the 'without start/finish lines' document
WithoutLinesArea ==
    Element(TagRect,
        ("x" :> <<"1", "0", "0">>)
        @@ ("y" :> <<"1", "0", "0">>)
        @@ ("width" :> <<"8", "0", "0">>)
        @@ ("height" :> <<"3", "0", "0">>)
        @@ ("fill" :> <<"#", "F", "F", "F", "F", "F", "F">>))

\* the same rectangle in TRACK_COLORS.TRACK_AREA
WithoutLinesAreaGreen ==
    Element(TagRect,
        ("x" :> <<"1", "0", "0">>)
        @@ ("y" :> <<"1", "0", "0">>)
        @@ ("width" :> <<"8", "0", "0">>)
        @@ ("height" :> <<"3", "0", "0">>)
        @@ ("fill" :> <<"#", "0", "0", "F", "F", "0", "0">>))

\* createMockSVG: the root of the fixtures
MockRoot == SvgRoot(<<"1", "0", "0", "0">>, <<"5", "0", "0">>, Null)

MOCK_TRACK_SVG ==
    <<MockRoot, MockTrackArea, MockWall1, MockWall2, MockObstacle1,
      MockObstacle2, MockStartLine, MockFinishLine>>

\* MOCK_TRACK_SVG with its track area in TRACK_COLORS.TRACK_AREA
GreenTrackSvg ==
    <<MockRoot, MockTrackAreaGreen, MockWall1, MockWall2, MockObstacle1,
      MockObstacle2, MockStartLine, MockFinishLine>>

svgWithoutLines == <<MockRoot, WithoutLinesArea>>

GreenWithoutLines == <<MockRoot, WithoutLinesAreaGreen>>

FixtureDocuments ==
    {MOCK_TRACK_SVG, GreenTrackSvg, svgWithoutLines, GreenWithoutLines}

\* Start and finish elements, several of each
MarkerElements == {StartLine, StartLineWide, FinishRect, FinishLineLow}

MaxMarkers == 2

\* A track area followed by start and finish elements
MarkerDocuments ==
    {<<SvgRoot(<<"1", "0", "0">>, <<"5", "0">>, Null), AreaRect>> \o body :
        body \in SeqsUpTo(MarkerElements, MaxMarkers)}

Documents ==
    {<<root>> \o body : root \in MainRoots, body \in SeqsUpTo(ElementPool, MaxElements)}
        \cup {<<root>> \o body : root \in AllRoots, body \in SeqsUpTo(FewElements, 1)}
        \cup {<<ParserError>>,
              <<SvgRoot(<<"1", "0", "0">>, <<"5", "0">>, Null), ParserError, AreaRect>>}
        \cup FixtureDocuments \cup MarkerDocuments

\* The tracks the validateTrackData tests write down: invalidTrack and
\* largeTrack
WrittenTrack(width, height, trackAreas) ==
    [bounds         |-> [x |-> Num(0), y |-> Num(0), width |-> Num(width),
                         height |-> Num(height)],
     walls          |-> <<>>,
     obstacles      |-> <<>>,
     boundaries     |-> <<>>,
     startPosition  |-> NullShape,
     finishPosition |-> NullShape,
     metadata       |->
         [originalSVGSize |-> [width |-> Num(width), height |-> Num(height)],
          scaleFactor     |-> Num(1),
          elementCounts   |->
              [walls |-> 0, obstacles |-> 0, trackAreas |-> trackAreas]]]

invalidTrack ==
    [WrittenTrack(0, 0, 0) EXCEPT
        !.metadata.originalSVGSize = [width |-> Num(100), height |-> Num(100)]]

largeTrack == WrittenTrack(15000, 12000, 1)

WrittenTracks == {invalidTrack, largeTrack}

GameConfigs ==
    {[worldWidth |-> Num(100), worldHeight |-> Num(100)],
     [worldWidth |-> Num(1024), worldHeight |-> Num(768)]}

---------------------------------------------------------------------------
(* The state machines.                                                     *)
(*   Spec:        a caller hands a source text and a viewport to           *)
(*                importTrack, takes the track or the error it gets back,  *)
(*                and validates a track.                                   *)
(*   SpecMenu:    the MainMenu and Game scenes: file imports, the default  *)
(*                track, the registry entry "importedTrack", the Game      *)
(*                scene's world.                                           *)
(*   SpecPhysics: a caller adds bodies and tracks to a scene and removes   *)
(*                them.                                                    *)

importVars == <<pc, svgText, gameConfig, result, validation>>

menuVars ==
    <<scene, registry, fileImport, defaultLoad, message, playImportedButton,
      currentTrack, errorShown>>

physicsVars == <<world, physics, callError>>

gameVars ==
    <<puck, isDragging, startX, startY, diffX, diffY, lastValidPosition,
      isRespawning, currentZoom, maxReachedZoomDuringDrag, cameraZoom, tween,
      pointer>>

dragVars == <<isDragging, startX, startY, diffX, diffY>>

zoomVars == <<currentZoom, maxReachedZoomDuringDrag, cameraZoom>>

callVars == <<previous, called, returned>>

NoDocument == <<>>

NoConfig == [worldWidth |-> Num(0), worldHeight |-> Num(0)]

NoResult == [thrown |-> FALSE, value |-> NullShape]

NoValidation == [isValid |-> FALSE, errors |-> <<>>, warnings |-> <<>>, null |-> TRUE]

\* registry.get("importedTrack") === undefined, currentTrack === null
NoTrack == NullShape

NoFile == [name |-> "", type |-> "", text |-> NoDocument]

\* Nothing imported yet
ImportIdle ==
    /\ pc = "idle"
    /\ svgText = NoDocument
    /\ gameConfig = NoConfig
    /\ result = NoResult
    /\ validation = NoValidation

\* The main menu as MainMenu.create leaves it at the start of the game
MenuIdle ==
    /\ scene = "MainMenu"
    /\ registry = NoTrack
    /\ fileImport = NoFile
    /\ defaultLoad = FALSE
    /\ message = ""
    /\ playImportedButton = FALSE
    /\ currentTrack = NoTrack
    /\ errorShown = FALSE
    /\ logged = ""

\* An empty world, no call made
PhysicsIdle ==
    /\ world = <<>>
    /\ callError = FALSE

\* The Game scene as constructed: the fields with an initial value hold
\* it, the others are undefined, and there is no puck, tween or drag.
\* isDragging is only ever tested for truth (!!, !, if, ||), where undefined
\* is as false
GameIdle ==
    /\ puck = NullShape
    /\ isDragging = FALSE
    /\ startX = NullNum
    /\ startY = NullNum
    /\ diffX = NullNum
    /\ diffY = NullNum
    /\ lastValidPosition = NullShape
    /\ isRespawning = FALSE
    /\ currentZoom = CAMERA_ZOOM.DEFAULT
    /\ maxReachedZoomDuringDrag = CAMERA_ZOOM.DEFAULT
    /\ cameraZoom = Num(1)
    /\ tween = "none"
    /\ pointer = "none"

\* No earlier call remembered
NoPrevious ==
    [svgText |-> NoDocument, gameConfig |-> NoConfig, result |-> NoResult,
     failedBetween |-> FALSE, succeededBetween |-> FALSE]

NoCall == [function |-> ""]

\* No call made, no import remembered
CallIdle ==
    /\ previous = NoPrevious
    /\ called = NoCall
    /\ returned = NullShape

Init ==
    /\ ImportIdle
    /\ MenuIdle
    /\ PhysicsIdle
    /\ GameIdle
    /\ CallIdle
    /\ physics = TRUE

\* importTrack(text, config) runs to completion
ImportTrack(text, config) ==
    /\ pc = "idle"
    /\ pc' = "imported"
    /\ svgText' = text
    /\ gameConfig' = config
    /\ result' = importTrack(text, config)
    /\ UNCHANGED <<gameVars, callVars, validation, menuVars, physicsVars, logged>>

\* validateTrackData(track) on the track just imported
ValidateImported ==
    /\ pc = "imported"
    /\ ~result.thrown
    /\ pc' = "validated"
    /\ validation' = validateTrackData(result.value)
    /\ UNCHANGED <<gameVars, callVars, svgText, gameConfig, result, menuVars, physicsVars, logged>>

\* validateTrackData(track) on a track the caller wrote down itself
ValidateWritten(track) ==
    /\ pc = "idle"
    /\ pc' = "validated"
    /\ result' = Returned(track)
    /\ validation' = validateTrackData(track)
    /\ UNCHANGED <<gameVars, callVars, svgText, gameConfig, menuVars, physicsVars, logged>>

\* The caller is done with the track or the error
Discard ==
    /\ pc \in {"imported", "validated"}
    /\ pc' = "idle"
    /\ svgText' = NoDocument
    /\ gameConfig' = NoConfig
    /\ result' = NoResult
    /\ validation' = NoValidation
    /\ UNCHANGED <<gameVars, callVars, menuVars, physicsVars, logged>>

Next ==
    \/ \E text \in Documents, config \in GameConfigs : ImportTrack(text, config)
    \/ ValidateImported
    \/ \E track \in WrittenTracks : ValidateWritten(track)
    \/ Discard

Spec == Init /\ [][Next]_vars

---------------------------------------------------------------------------
(* The MainMenu and Game scenes                                            *)

\* The main camera of the scenes
MainCamera == [width |-> Num(1024), height |-> Num(768)]

\* A File: its name, its MIME type and the text a FileReader reads from it
File(name, type, text) == [name |-> name, type |-> type, text |-> text]

\* The documents the menu meets, as files and as the default track: two
\* valid tracks, a track of height 0, and a document without a track area
\* (its rectangle has the colour of the fixtures)
MenuDocuments ==
    {<<SvgRoot(<<"1", "0", "0">>, <<"5", "0">>, Null), AreaRect, WallRect>>,
     <<SvgRoot(<<"1", "0", "0">>, <<"5", "0">>, Null), AreaRect, ObstacleCircle>>,
     <<SvgRoot(<<"1", "0", "0">>, <<"5", "0">>, Null), AreaRectFlat>>,
     <<SvgRoot(<<"1", "0", "0">>, <<"5", "0">>, Null), WhiteRect>>}

MenuFiles ==
    {File("track.svg", "image/svg+xml", text) : text \in MenuDocuments}
        \cup {File("notes.txt", "text/plain", <<>>)}

\* What fetch("assets/tracks/track_straight_test.svg") may resolve to
DefaultFetches ==
    {[ok |-> FALSE, statusText |-> "Not Found", text |-> NoDocument]}
        \cup {[ok |-> TRUE, statusText |-> "OK", text |-> text] :
                text \in MenuDocuments}

\* errors.join(", ")
RECURSIVE JoinComma(_)
JoinComma(errors) ==
    IF Len(errors) = 0 THEN ""
    ELSE IF Len(errors) = 1 THEN errors[1]
    ELSE errors[1] \o ", " \o JoinComma(Tail(errors))

\* An attempt that took the validated track to be valid whatever the validation
AttemptUnvalidated(track, checked) ==
    [kind |-> "valid", track |-> track, detail |-> ""]

\* The attempt after validateTrackData: refused if !validation.isValid
AttemptValidated(track, checked) ==
    IF ~checked.isValid
    THEN [kind |-> "invalid", track |-> NoTrack, detail |-> JoinComma(checked.errors)]
    ELSE [kind |-> "valid", track |-> track, detail |-> ""]

\* The attempt once the text is to hand: importTrack, then validateTrackData;
\* an error thrown by importTrack goes to the catch clause
AttemptImported(imported) ==
    IF imported.thrown
    THEN [kind |-> "failed", track |-> NoTrack, detail |-> imported.message]
    ELSE AttemptValidated(imported.value, validateTrackData(imported.value))

\* An attempt that threw before there was a text
AttemptFailed(detail) == [kind |-> "failed", track |-> NoTrack, detail |-> detail]

\* The body of handleSVGFile: loadTrackFromFile, then the attempt
HandleSVGFileAttempt(file, readOk) ==
    IF ~readOk THEN AttemptFailed("File reading failed")
    ELSE AttemptImported(importTrack(file.text, createGameConfig(MainCamera)))

\* The body of loadDefaultTrack: the fetch, then the attempt
LoadDefaultTrackAttempt(response) ==
    IF ~response.ok
    THEN AttemptFailed("Failed to load default track: " \o response.statusText)
    ELSE AttemptImported(importTrack(response.text, createGameConfig(MainCamera)))

\* scene.start(...) shuts the running scene down.  Nothing in the Game scene
\* removes bodies on shutdown (removeTrackFromScene has no caller); whether
\* the framework's own shutdown empties the Matter world is not decided by
\* this source, so the world is left as it is or emptied.
SceneShutdown ==
    \E emptied \in BOOLEAN :
        world' = IF scene = "Game" /\ emptied THEN <<>> ELSE world

\* The file input's change listener: handleSVGFile(file) starts for a file
\* of type image/svg+xml
FileChosen(file) ==
    /\ scene = "MainMenu"
    /\ fileImport = NoFile
    /\ fileImport' = IF file.type = "image/svg+xml" THEN file ELSE NoFile
    /\ UNCHANGED <<gameVars, callVars, importVars, physicsVars, scene, registry, defaultLoad, message,
                   playImportedButton, currentTrack, errorShown, logged>>

\* handleSVGFile from its first await to its end, with the attempt's outcome.
\* showMessage and showPlayImportedTrackButton act on the MainMenu scene.
HandleSVGFileEnd(attempt) ==
    /\ fileImport' = NoFile
    /\ registry' = IF attempt.kind = "valid" THEN attempt.track ELSE registry
    /\ logged' = CASE attempt.kind = "valid" -> "Track imported successfully:"
                   [] attempt.kind = "invalid" -> "Track validation failed:"
                   [] OTHER -> "Error importing SVG track:"
    /\ message' =
          IF scene # "MainMenu" THEN message
          ELSE CASE attempt.kind = "valid" -> "Track loaded: " \o fileImport.name
                 [] attempt.kind = "invalid" -> "Track invalid: " \o attempt.detail
                 [] OTHER -> "Import failed: " \o attempt.detail
    /\ playImportedButton' =
          IF scene = "MainMenu" /\ attempt.kind = "valid" THEN TRUE
          ELSE playImportedButton
    /\ UNCHANGED <<gameVars, callVars, importVars, physicsVars, scene, defaultLoad, currentTrack,
                   errorShown>>

HandleSVGFile(readOk) ==
    /\ fileImport # NoFile
    /\ HandleSVGFileEnd(HandleSVGFileAttempt(fileImport, readOk))

\* "Play Game" is pressed: loadDefaultTrack starts its fetch
PlayGamePressed ==
    /\ scene = "MainMenu"
    /\ ~defaultLoad
    /\ defaultLoad' = TRUE
    /\ UNCHANGED <<gameVars, callVars, importVars, physicsVars, scene, registry, fileImport, message,
                   playImportedButton, currentTrack, errorShown, logged>>

\* loadDefaultTrack from its first await to its end, with the attempt's
\* outcome: a valid track is stored and the Game scene started
LoadDefaultTrackEnd(attempt) ==
    /\ defaultLoad' = FALSE
    /\ registry' = IF attempt.kind = "valid" THEN attempt.track ELSE registry
    /\ logged' = CASE attempt.kind = "valid" -> "Default track loaded successfully:"
                   [] attempt.kind = "invalid" -> "Default track validation failed:"
                   [] OTHER -> "Error loading default track:"
    /\ message' =
          IF scene # "MainMenu" THEN message
          ELSE CASE attempt.kind = "valid" -> message
                 [] attempt.kind = "invalid" ->
                        "Default track invalid: " \o attempt.detail
                 [] OTHER -> "Failed to load default track: " \o attempt.detail
    /\ IF attempt.kind = "valid"
       THEN scene' = "GameStarting" /\ SceneShutdown
       ELSE UNCHANGED <<scene, world>>
    /\ UNCHANGED <<gameVars, callVars, importVars, physics, callError, fileImport, playImportedButton,
                   currentTrack, errorShown>>

LoadDefaultTrack(response) ==
    /\ defaultLoad
    /\ LoadDefaultTrackEnd(LoadDefaultTrackAttempt(response))

\* "Play Imported Track" is pressed: this.scene.start("Game")
PlayImportedPressed ==
    /\ scene = "MainMenu"
    /\ playImportedButton
    /\ scene' = "GameStarting"
    /\ UNCHANGED <<gameVars, callVars, importVars, physicsVars, registry, fileImport, defaultLoad,
                   message, playImportedButton, currentTrack, errorShown, logged>>

\* Where setupImportedTrack puts the puck: on the start position, or on the
\* centre of the bounds of a track without one
SpawnPosition(track) ==
    IF track.startPosition # NullShape
    THEN [x |-> track.startPosition.x, y |-> track.startPosition.y]
    ELSE [x |-> Add(track.bounds.x, Div(track.bounds.width, Num(2))),
          y |-> Add(track.bounds.y, Div(track.bounds.height, Num(2)))]

\* this.matter.add.sprite(x, y, ...): a puck at rest
PuckAt(position) ==
    [x |-> position.x, y |-> position.y,
     velocity |-> [x |-> Num(0), y |-> Num(0)]]

\* The bodies of a track
BodiesOf(track) == track.walls \o track.obstacles \o track.boundaries

MaxBodies == 4

\* Game.create once setupImportedTrack has called addTrackToScene: the track
\* is on the scene or create's catch shows the error; setupFails stands for
\* an error thrown by the framework calls of setupPuck .. setupFPS
GameCreateWithTrack(added, setupFails) ==
    /\ currentTrack' = registry
    /\ puck' = IF added.thrown THEN puck ELSE PuckAt(SpawnPosition(registry))
    /\ lastValidPosition' = IF added.thrown THEN lastValidPosition
                            ELSE SpawnPosition(registry)
    /\ world' = IF added.thrown THEN world ELSE added.value.world
    /\ errorShown' = (added.thrown \/ setupFails)
    /\ logged' = IF added.thrown \/ setupFails THEN "Failed to setup game:"
                 ELSE "Imported track loaded successfully"

\* Game.create
GameCreate(setupFails) ==
    /\ scene = "GameStarting"
    /\ scene' = "Game"
    /\ IF registry = NoTrack
       THEN /\ errorShown' = TRUE
            /\ UNCHANGED <<currentTrack, world, logged, puck, lastValidPosition>>
       ELSE /\ Len(world) + Len(BodiesOf(registry)) <= MaxBodies
            /\ GameCreateWithTrack(
                    addTrackToScene(registry, [physics |-> physics, world |-> world]),
                    setupFails)
    /\ UNCHANGED <<dragVars, zoomVars, isRespawning, tween, pointer, callVars, importVars, physics, callError, registry, fileImport,
                   defaultLoad, message, playImportedButton>>

\* "Back to Menu" on the error screen: this.scene.start("MainMenu"), and
\* MainMenu.create builds the menu anew
BackToMenu ==
    /\ scene = "Game"
    /\ errorShown
    /\ scene' = "MainMenu"
    /\ errorShown' = FALSE
    /\ message' = ""
    /\ playImportedButton' = FALSE
    /\ SceneShutdown
    /\ UNCHANGED <<gameVars, callVars, importVars, physics, callError, registry, fileImport,
                   defaultLoad, currentTrack, logged>>

InitMenu ==
    /\ ImportIdle
    /\ MenuIdle
    /\ PhysicsIdle
    /\ GameIdle
    /\ CallIdle
    /\ physics \in BOOLEAN

NextMenu ==
    \/ \E file \in MenuFiles : FileChosen(file)
    \/ \E readOk \in BOOLEAN : HandleSVGFile(readOk)
    \/ PlayGamePressed
    \/ \E response \in DefaultFetches : LoadDefaultTrack(response)
    \/ PlayImportedPressed
    \/ \E setupFails \in BOOLEAN : GameCreate(setupFails)
    \/ BackToMenu

SpecMenu == InitMenu /\ [][NextMenu]_vars

---------------------------------------------------------------------------
(* A caller of the physics adapter                                         *)

\* The tracks and the lists of bodies the caller has
SceneTracks ==
    {importTrack(text, createGameConfig(MainCamera)).value :
        text \in {GreenTrackSvg,
                  <<SvgRoot(<<"1", "0", "0">>, <<"5", "0">>, Null), AreaRect, WallRect>>}}

BodyLists ==
    {track.walls : track \in SceneTracks}
        \cup {track.obstacles : track \in SceneTracks}
        \cup {<<track.walls[1]>> : track \in SceneTracks}
        \cup {<<track.obstacles[i]>> :
                 track \in {t \in SceneTracks : Len(t.obstacles) = 2}, i \in 1..2}

TheScene == [physics |-> physics, world |-> world]

\* addBodiesWithPhysics(scene, bodies) has returned or thrown
AddBodiesCalled(outcome) ==
    /\ callError' = outcome.thrown
    /\ world' = IF outcome.thrown THEN world ELSE outcome.value.world
    /\ UNCHANGED <<gameVars, callVars, importVars, menuVars, physics, logged>>

CallAddBodies(bodies) ==
    /\ Len(world) + Len(bodies) <= MaxBodies
    /\ AddBodiesCalled(addBodiesWithPhysics(TheScene, bodies))

CallRemoveBodies(bodies) ==
    /\ callError' = FALSE
    /\ world' = removeBodiesFromPhysics(TheScene, bodies).world
    /\ UNCHANGED <<gameVars, callVars, importVars, menuVars, physics, logged>>

\* addTrackToScene(track, scene) has returned or thrown
AddTrackCalled(outcome) ==
    /\ callError' = outcome.thrown
    /\ world' = IF outcome.thrown THEN world ELSE outcome.value.world
    /\ logged' = IF outcome.thrown THEN logged ELSE "Track added to scene:"
    /\ UNCHANGED <<gameVars, callVars, importVars, menuVars, physics>>

CallAddTrack(track) ==
    /\ Len(world) + Len(BodiesOf(track)) <= MaxBodies
    /\ AddTrackCalled(addTrackToScene(track, TheScene))

CallRemoveTrack(track) ==
    /\ callError' = FALSE
    /\ world' = removeTrackFromScene(track, TheScene).world
    /\ logged' = IF physics THEN "Track removed from scene" ELSE logged
    /\ UNCHANGED <<gameVars, callVars, importVars, menuVars, physics>>

InitPhysics ==
    /\ ImportIdle
    /\ MenuIdle
    /\ PhysicsIdle
    /\ GameIdle
    /\ CallIdle
    /\ physics \in BOOLEAN

NextPhysics ==
    \/ \E bodies \in BodyLists : CallAddBodies(bodies)
    \/ \E bodies \in BodyLists : CallRemoveBodies(bodies)
    \/ \E track \in SceneTracks : CallAddTrack(track)
    \/ \E track \in SceneTracks : CallRemoveTrack(track)

SpecPhysics == InitPhysics /\ [][NextPhysics]_vars

---------------------------------------------------------------------------
(* A caller of importTrack that calls it again and again.  previous is an  *)
(* earlier call, its arguments and what it returned or threw, with what    *)
(* became of the calls made since.                                         *)

\* The source texts of the repeated calls: the fixtures of the tests, the
\* documents of the menu, a text that does not parse and one without a root
RepeatDocuments ==
    FixtureDocuments \cup MenuDocuments \cup {<<ParserError>>, <<DivRoot, AreaRect>>}

\* The call that has returned is remembered, or it joins the calls made
\* since the remembered one
Remember(remember) ==
    IF remember
    THEN [svgText |-> svgText, gameConfig |-> gameConfig, result |-> result,
          failedBetween |-> FALSE, succeededBetween |-> FALSE]
    ELSE IF previous = NoPrevious THEN previous
    ELSE [previous EXCEPT !.failedBetween = @ \/ result.thrown,
                          !.succeededBetween = @ \/ ~result.thrown]

\* importTrack(text, config) once more
ImportTrackAgain(text, config, remember) ==
    /\ pc = "imported"
    /\ previous' = Remember(remember)
    /\ svgText' = text
    /\ gameConfig' = config
    /\ result' = importTrack(text, config)
    /\ UNCHANGED <<pc, validation, menuVars, physicsVars, gameVars, called,
                   returned, logged>>

NextRepeat ==
    \/ \E text \in RepeatDocuments, config \in GameConfigs : ImportTrack(text, config)
    \/ \E text \in RepeatDocuments, config \in GameConfigs, remember \in BOOLEAN :
            ImportTrackAgain(text, config, remember)

SpecRepeat == Init /\ [][NextRepeat]_vars

---------------------------------------------------------------------------
(* A caller of the exported helpers: isOutOfBounds, getElementBounds and   *)
(* extractTrackElements are called with arguments of the caller's choice;  *)
(* called is the call and returned is what it returned.                    *)

\* Coordinates on, beside and away from the edges of the bounds below
EdgeCoordinates == {-6, -5, 0, 5, 15, 16}

CallPositions == {[x |-> Num(px), y |-> Num(py)] : px, py \in EdgeCoordinates}

CallBounds ==
    {[x |-> Num(-5), y |-> Num(-5), width |-> Num(20), height |-> Num(20)],
     [x |-> Num(0), y |-> Num(5), width |-> Num(15), height |-> Num(0)],
     [x |-> Num(-5), y |-> Num(0), width |-> Num(10), height |-> Num(16)]}

\* Attribute values and the numbers they denote
NumberTexts ==
    {[text |-> <<"1", "0", "0">>, number |-> Num(100)],
     [text |-> <<"1", "5", "0">>, number |-> Num(150)],
     [text |-> <<"2", "0", "0">>, number |-> Num(200)],
     [text |-> <<"-", "2", "0">>, number |-> Num(-20)],
     [text |-> <<"2", ".", "5">>, number |-> Norm(5, 2)]}

\* Stroke widths: unspecified, 10 and 0
StrokeTexts ==
    {[text |-> Null, number |-> NullNum],
     [text |-> <<"1", "0">>, number |-> Num(10)],
     [text |-> <<"0">>, number |-> Num(0)]}

\* The element <tag n1="v1" n2="v2" ...> and the numbers v1, v2, ...
Shape(tag, names, values) ==
    [element |-> Element(tag, [n \in {names[i] : i \in DOMAIN names} |->
                     values[CHOOSE i \in DOMAIN names : names[i] = n].text]),
     numbers |-> [i \in DOMAIN values |-> values[i].number]]

\* As Shape, stroke-width being left out when it is unspecified
Line(names, values) ==
    IF values[5].text = Null
    THEN [Shape(TagLine, SubSeq(names, 1, 4), SubSeq(values, 1, 4))
             EXCEPT !.numbers = @ \o <<NullNum>>]
    ELSE Shape(TagLine, names, values)

CallShapes ==
    {Shape(TagRect, <<"x", "y", "width", "height">>, <<a, b, c, d>>) :
        a, b, c, d \in NumberTexts}
    \cup {Shape(TagCircle, <<"cx", "cy", "r">>, <<a, b, c>>) : a, b, c \in NumberTexts}
    \cup {Line(<<"x1", "y1", "x2", "y2", "stroke-width">>, <<a, b, c, d, e>>) :
            a, b, c, d \in NumberTexts, e \in StrokeTexts}

\* Paints: none, a colour that is no role colour, and three role colours
Paints == {Null, <<"n", "o", "n", "e">>, ColorTrackArea, ColorWall, ColorStartLine}

\* A rectangle of the given fill and stroke
Painted(fill, stroke) ==
    Element(TagRect, ("width" :> <<"8", "0">>) @@ ("height" :> <<"3", "0">>)
                     @@ Attribute("fill", fill) @@ Attribute("stroke", stroke))

MaxPainted == 2

CallDocuments ==
    {<<SvgRoot(<<"1", "0", "0">>, <<"5", "0">>, Null)>> \o body :
        body \in SeqsUpTo({Painted(fill, stroke) : fill, stroke \in Paints},
                          MaxPainted)}

CallIsOutOfBounds(position, trackBounds) ==
    /\ called = NoCall
    /\ called' = [function |-> "isOutOfBounds", position |-> position,
                  trackBounds |-> trackBounds]
    /\ returned' = isOutOfBounds(position, trackBounds)
    /\ UNCHANGED <<importVars, menuVars, physicsVars, gameVars, previous, logged>>

CallGetElementBounds(shape) ==
    /\ called = NoCall
    /\ called' = [function |-> "getElementBounds", element |-> shape.element,
                  numbers |-> shape.numbers]
    /\ returned' = getElementBounds(shape.element)
    /\ UNCHANGED <<importVars, menuVars, physicsVars, gameVars, previous, logged>>

CallExtractTrackElements(doc) ==
    /\ called = NoCall
    /\ called' = [function |-> "extractTrackElements", doc |-> doc]
    /\ returned' = extractTrackElements(doc)
    /\ UNCHANGED <<importVars, menuVars, physicsVars, gameVars, previous, logged>>

\* The caller is done with what the call returned
CallDone ==
    /\ called # NoCall
    /\ called' = NoCall
    /\ returned' = NullShape
    /\ UNCHANGED <<importVars, menuVars, physicsVars, gameVars, previous, logged>>

NextCalls ==
    \/ \E position \in CallPositions, trackBounds \in CallBounds :
            CallIsOutOfBounds(position, trackBounds)
    \/ \E shape \in CallShapes : CallGetElementBounds(shape)
    \/ \E doc \in CallDocuments : CallExtractTrackElements(doc)
    \/ CallDone

SpecCalls == Init /\ [][NextCalls]_vars

---------------------------------------------------------------------------
(* The Game scene at play: the handlers setupInput registers, update, the  *)
(* respawn tweens, and around them the physics engine that moves the puck. *)
(* A game object is "puck" or "other"; cameraZoom is camera.zoom.          *)

\* A drawing of the size of the viewport, to be shown at that size
GameRoot ==
    SvgRoot(<<"1", "0", "2", "4">>, <<"7", "6", "8">>, <<"1", "0", "2", "4">>)

\* the track area of the game's tracks: 100..900 by 100..700
GameArea ==
    Element(TagRect,
        ("x" :> <<"1", "0", "0">>)
        @@ ("y" :> <<"1", "0", "0">>)
        @@ ("width" :> <<"8", "0", "0">>)
        @@ ("height" :> <<"6", "0", "0">>)
        @@ ("fill" :> <<"#", "0", "0", "F", "F", "0", "0">>))

\* a start line within the track area, centred on (200, 400)
StartLineInside ==
    Element(TagLine,
        ("x1" :> <<"2", "0", "0">>)
        @@ ("y1" :> <<"3", "5", "0">>)
        @@ ("x2" :> <<"2", "0", "0">>)
        @@ ("y2" :> <<"4", "5", "0">>)
        @@ ("stroke" :> <<"#", "0", "0", "0", "0", "F", "F">>))

\* a start line drawn beside the track area, centred on (950, 400)
StartLineOutside ==
    Element(TagLine,
        ("x1" :> <<"9", "5", "0">>)
        @@ ("y1" :> <<"3", "5", "0">>)
        @@ ("x2" :> <<"9", "5", "0">>)
        @@ ("y2" :> <<"4", "5", "0">>)
        @@ ("stroke" :> <<"#", "0", "0", "0", "0", "F", "F">>))

GameDocuments ==
    {<<GameRoot, GameArea>>,
     <<GameRoot, GameArea, StartLineInside>>,
     <<GameRoot, GameArea, StartLineOutside>>}

\* The tracks MainMenu imports from them
GameTracks ==
    {importTrack(doc, createGameConfig(MainCamera)).value : doc \in GameDocuments}

\* Where the engine may take the puck: two places on the track and one
\* beyond its right edge
PuckPositions ==
    {[x |-> Num(500), y |-> Num(400)], [x |-> Num(200), y |-> Num(400)],
     [x |-> Num(950), y |-> Num(400)]}

\* How far from the place of the dragstart the pointer is pulled
DragOffsets == {[x |-> Num(300), y |-> Num(400)], [x |-> Num(-100), y |-> Num(0)]}

\* deltaY of a wheel event
WheelDeltas == {Num(-100), Num(100)}

GameObjects == {"puck", "other"}

PositionOf(sprite) == [x |-> sprite.x, y |-> sprite.y]

AtRest == [x |-> Num(0), y |-> Num(0)]

\* The Game scene shows a track and has its puck
Playing == scene = "Game" /\ ~errorShown /\ currentTrack # NoTrack /\ puck # NullShape

\* camera.zoomTo(target, duration, ease, true): a zoom effect towards
\* target replaces the one that runs.  The effect is taken at its end: the
\* next event finds the camera at the target
zoomTo(target) == target

\* updateSpeedBasedZoom past its guard, the puck having the given velocity
updateSpeedBasedZoomTo(targetZoom) ==
    /\ currentZoom' = targetZoom
    /\ cameraZoom' = zoomTo(targetZoom)

updateSpeedBasedZoom(dragging, respawning, velocity) ==
    IF dragging \/ respawning
    THEN UNCHANGED <<currentZoom, cameraZoom>>
    ELSE updateSpeedBasedZoomTo(
            calculateSpeedZoom(
                [velocity    |-> calculateVelocityMagnitude(velocity.x, velocity.y),
                 maxVelocity |-> PHYSICS.MAX_VELOCITY],
                getZoomConfig))

\* updateCameraZoomForSling once the target is known
updateCameraZoomForSlingTo(targetZoom) ==
    IF shouldUpdateZoomDuringDrag(currentZoom, targetZoom)
    THEN /\ currentZoom' = targetZoom
         /\ maxReachedZoomDuringDrag' = MathMin(maxReachedZoomDuringDrag, targetZoom)
         /\ cameraZoom' = zoomTo(targetZoom)
    ELSE UNCHANGED zoomVars

updateCameraZoomForSling ==
    updateCameraZoomForSlingTo(
        calculateSlingZoom(
            [length    |-> calculateSlingLength(ToNumber(startX), ToNumber(startY),
                                                puck.x, puck.y),
             maxLength |-> SLINGSHOT.MAX_LENGTH],
            getZoomConfig))

\* The "dragstart" handler
DragStart(gameObject) ==
    /\ Playing
    /\ pointer = "none"
    /\ pointer' = gameObject
    /\ IF isControlAllowed(gameObject, "puck", [isRespawning |-> isRespawning])
       THEN /\ isDragging' = TRUE
            /\ startX' = puck.x
            /\ startY' = puck.y
            /\ maxReachedZoomDuringDrag' = currentZoom
       ELSE UNCHANGED <<isDragging, startX, startY, maxReachedZoomDuringDrag>>
    /\ UNCHANGED <<importVars, menuVars, physicsVars, callVars, logged, puck,
                   diffX, diffY, lastValidPosition, isRespawning, currentZoom,
                   cameraZoom, tween>>

\* The "drag" handler
Drag(dragX, dragY) ==
    /\ Playing
    /\ pointer # "none"
    /\ IF isDragAllowed(pointer, "puck",
                        [isRespawning |-> isRespawning, isDragging |-> isDragging])
       THEN /\ diffX' = Sub(ToNumber(startX), dragX)
            /\ diffY' = Sub(ToNumber(startY), dragY)
            /\ updateCameraZoomForSling
       ELSE UNCHANGED <<diffX, diffY, zoomVars>>
    /\ UNCHANGED <<importVars, menuVars, physicsVars, callVars, logged, puck,
                   isDragging, startX, startY, lastValidPosition, isRespawning,
                   tween, pointer>>

\* The "dragend" handler past its test: the puck is launched and the zoom
\* follows its speed
Release(velocity) ==
    /\ isDragging' = FALSE
    /\ puck' = [puck EXCEPT !.velocity = velocity]
    /\ updateSpeedBasedZoom(FALSE, isRespawning, velocity)

\* The "dragend" handler
DragEnd ==
    /\ Playing
    /\ pointer # "none"
    /\ pointer' = "none"
    /\ IF isControlAllowed(pointer, "puck", [isRespawning |-> isRespawning])
       THEN Release([x |-> Mul(ToNumber(diffX), SLINGSHOT.VELOCITY_MULTIPLIER),
                     y |-> Mul(ToNumber(diffY), SLINGSHOT.VELOCITY_MULTIPLIER)])
       ELSE UNCHANGED <<isDragging, puck, currentZoom, cameraZoom>>
    /\ UNCHANGED <<importVars, menuVars, physicsVars, callVars, logged, startX,
                   startY, diffX, diffY, lastValidPosition, isRespawning,
                   maxReachedZoomDuringDrag, tween>>

\* The "wheel" handler
Wheel(deltaY) ==
    /\ Playing
    /\ cameraZoom' =
            zoomTo(IF Gt(deltaY, Num(0))
                   THEN MathMax(CAMERA_ZOOM.MIN, Sub(cameraZoom, MOUSE.ZOOM_SPEED))
                   ELSE MathMin(CAMERA_ZOOM.MAX, Add(cameraZoom, MOUSE.ZOOM_SPEED)))
    /\ UNCHANGED <<importVars, menuVars, physicsVars, callVars, logged, puck,
                   dragVars, lastValidPosition, isRespawning, currentZoom,
                   maxReachedZoomDuringDrag, tween, pointer>>

\* startRespawnAnimation past its guard: the puck stops, a drag is dropped
\* and the fade-out tween starts.  update goes on to its zoom, which the
\* respawn keeps from changing
startRespawnAnimation ==
    /\ isRespawning' = TRUE
    /\ puck' = [puck EXCEPT !.velocity = AtRest]
    /\ isDragging' = FALSE
    /\ tween' = "fadeOut"
    /\ updateSpeedBasedZoom(FALSE, TRUE, AtRest)
    /\ UNCHANGED lastValidPosition

\* Game.update
Update ==
    /\ Playing
    /\ IF isRespawning
       THEN UNCHANGED <<puck, isDragging, lastValidPosition, isRespawning,
                        currentZoom, cameraZoom, tween>>
       ELSE IF isOutOfBounds(PositionOf(puck), currentTrack.bounds)
       THEN startRespawnAnimation
       ELSE /\ lastValidPosition' = PositionOf(puck)
            /\ updateSpeedBasedZoom(isDragging, FALSE, puck.velocity)
            /\ UNCHANGED <<puck, isDragging, isRespawning, tween>>
    /\ UNCHANGED <<importVars, menuVars, physicsVars, callVars, logged, startX,
                   startY, diffX, diffY, maxReachedZoomDuringDrag, pointer>>

\* The fade-out tween completes: repositionAndFadeIn
RepositionAndFadeIn ==
    /\ Playing
    /\ tween = "fadeOut"
    /\ puck' = PuckAt(getRespawnPosition(lastValidPosition,
                                         currentTrack.startPosition,
                                         currentTrack.bounds))
    /\ tween' = "fadeIn"
    /\ UNCHANGED <<importVars, menuVars, physicsVars, callVars, logged, dragVars,
                   zoomVars, lastValidPosition, isRespawning, pointer>>

\* FadeInComplete leaving isRespawning as it is
FadeInCompleteRespawning ==
    /\ Playing
    /\ tween = "fadeIn"
    /\ tween' = "none"
    /\ UNCHANGED <<importVars, menuVars, physicsVars, callVars, logged, dragVars,
                   zoomVars, puck, lastValidPosition, isRespawning, pointer>>

\* The fade-in tween completes
FadeInComplete ==
    /\ Playing
    /\ tween = "fadeIn"
    /\ isRespawning' = FALSE
    /\ tween' = "none"
    /\ UNCHANGED <<importVars, menuVars, physicsVars, callVars, logged, dragVars,
                   zoomVars, puck, lastValidPosition, pointer>>

\* A step of the physics engine: a puck that moves is taken somewhere, and
\* keeps its velocity or comes to rest
EngineStep(position, rests) ==
    /\ Playing
    /\ puck.velocity # AtRest
    /\ puck' = [x |-> position.x, y |-> position.y,
                velocity |-> IF rests THEN AtRest ELSE puck.velocity]
    /\ UNCHANGED <<importVars, menuVars, physicsVars, callVars, logged, dragVars,
                   zoomVars, lastValidPosition, isRespawning, tween, pointer>>

\* "Play Game" has loaded a track and Game.create has put it on the scene
InitGame ==
    /\ ImportIdle
    /\ CallIdle
    /\ scene = "Game"
    /\ registry \in GameTracks
    /\ currentTrack = registry
    /\ fileImport = NoFile
    /\ defaultLoad = FALSE
    /\ message = ""
    /\ playImportedButton = FALSE
    /\ errorShown = FALSE
    /\ logged = "Imported track loaded successfully"
    /\ physics = TRUE
    /\ world = BodiesOf(registry)
    /\ callError = FALSE
    /\ puck = PuckAt(SpawnPosition(registry))
    /\ lastValidPosition = SpawnPosition(registry)
    /\ isDragging = FALSE
    /\ startX = NullNum
    /\ startY = NullNum
    /\ diffX = NullNum
    /\ diffY = NullNum
    /\ isRespawning = FALSE
    /\ currentZoom = CAMERA_ZOOM.DEFAULT
    /\ maxReachedZoomDuringDrag = CAMERA_ZOOM.DEFAULT
    /\ cameraZoom = Num(1)
    /\ tween = "none"
    /\ pointer = "none"

NextGame ==
    \/ \E gameObject \in GameObjects : DragStart(gameObject)
    \/ \E offset \in DragOffsets :
            Drag(Sub(ToNumber(startX), offset.x), Sub(ToNumber(startY), offset.y))
    \/ DragEnd
    \/ \E deltaY \in WheelDeltas : Wheel(deltaY)
    \/ Update
    \/ RepositionAndFadeIn
    \/ FadeInComplete
    \/ \E position \in PuckPositions, rests \in BOOLEAN : EngineStep(position, rests)

SpecGame == InitGame /\ [][NextGame]_vars

\* The tweens run to completion
SpecGameFair ==
    /\ SpecGame
    /\ WF_vars(RepositionAndFadeIn)
    /\ WF_vars(FadeInComplete)

---------------------------------------------------------------------------
(* Claims.  Each is stated about the call that has just returned: the      *)
(* arguments are svgText and gameConfig, the outcome is result.            *)

Imported == pc = "imported"

Succeeded == Imported /\ ~result.thrown

\* The root element importTrack reads the dimensions from
Root == querySelector(svgText, TagSvg)

WellFormed == Imported /\ ~HasElement(svgText, TagParserError)

HasRoot == WellFormed /\ HasElement(svgText, TagSvg)

TrackFields ==
    {"bounds", "walls", "obstacles", "boundaries", "startPosition",
     "finishPosition", "metadata"}

\* The error importTrack raises for an error of message m
WrappedError(m) == [thrown |-> TRUE, message |-> "Track import failed: " \o m]

\* C1: importTrack returns a complete ImportedTrack or throws exactly one
\* error, whose message is 'Track import failed: ' followed by the message of
\* the failure of the first stage that failed; a failed import carries no
\* track, partial or whole.
C1_ImportAllOrNothing ==
    Imported =>
        /\ result.thrown => DOMAIN result = {"thrown", "message"}
        /\ IF HasElement(svgText, TagParserError)
           THEN result = WrappedError("SVG parsing failed: "
                            \o querySelector(svgText, TagParserError).textContent)
           ELSE IF getSVGDimensions(svgText).thrown
           THEN result = WrappedError(getSVGDimensions(svgText).message)
           ELSE IF Len(extractTrackElements(svgText).trackAreas) = 0
           THEN result = WrappedError("No track areas found in SVG")
           ELSE /\ ~result.thrown
                /\ DOMAIN result.value = TrackFields
                /\ DOMAIN result.value.bounds = {"x", "y", "width", "height"}
                /\ DOMAIN result.value.metadata
                       = {"originalSVGSize", "scaleFactor", "elementCounts"}
                /\ Len(result.value.walls)
                       = Len(extractTrackElements(svgText).walls)
                /\ Len(result.value.obstacles)
                       = Len(extractTrackElements(svgText).obstacles)

\* C1 witness: an import that failed while reading the dimensions, and was
\* re-raised wrapped
C1_Witness ==
    /\ WellFormed
    /\ getSVGDimensions(svgText).thrown
    /\ result = WrappedError("SVG dimensions are invalid or missing")

IsNoTrackAreasError(r) ==
    r.thrown /\ r.message = "Track import failed: No track areas found in SVG"

NoTrackAreaElements ==
    Imported /\ Len(extractElementsByColor(svgText, ColorTrackArea)) = 0

\* C2 as claimed: a document with zero track-area elements always fails with
\* the 'No track areas found' error, whatever else the document holds.
C2_Original ==
    NoTrackAreaElements => IsNoTrackAreasError(result)

\* C2 as amended: a document with zero track-area elements always fails; the
\* error is the 'No track areas found' error exactly when parsing and
\* getSVGDimensions succeed, and otherwise the error of the earlier stage.
C2_NoTrackAreasFails ==
    NoTrackAreaElements =>
        /\ result.thrown
        /\ IsNoTrackAreasError(result)
               <=> (WellFormed /\ ~getSVGDimensions(svgText).thrown)
        /\ HasElement(svgText, TagParserError)
               => result = WrappedError(parseSVGText(svgText).message)
        /\ (WellFormed /\ getSVGDimensions(svgText).thrown)
               => result = WrappedError(getSVGDimensions(svgText).message)

\* C2 witness: a document with walls, valid dimensions and a world size but
\* no track area has been refused for want of a track area
C2_Witness ==
    /\ NoTrackAreaElements
    /\ HasRoot
    /\ Len(svgText) > 1
    /\ IsNoTrackAreasError(result)

\* An attribute value counts as declared zero, missing or unparseable
BadDimension(value) ==
    \/ value = Null
    \/ IsNaN(parseFloat(value))
    \/ parseFloat(value) = Num(0)

\* C3: getSVGDimensions fails with the missing-root error when there is no
\* svg root, with the invalid-dimensions error whenever the declared width or
\* height is zero, missing or unparseable, and otherwise returns the declared
\* width and height.
C3_Dimensions ==
    WellFormed =>
        IF ~HasElement(svgText, TagSvg)
        THEN getSVGDimensions(svgText) = Thrown("No SVG root element found")
        ELSE IF \/ BadDimension(getAttribute(Root, "width"))
                \/ BadDimension(getAttribute(Root, "height"))
        THEN getSVGDimensions(svgText)
                 = Thrown("SVG dimensions are invalid or missing")
        ELSE getSVGDimensions(svgText)
                 = Returned([width  |-> parseFloat(getAttribute(Root, "width")),
                             height |-> parseFloat(getAttribute(Root, "height"))])

GeometryAttributes ==
    {"x", "y", "width", "height", "cx", "cy", "r", "x1", "y1", "x2", "y2"}

\* element with the attribute name removed
WithoutAttribute(element, name) ==
    [element EXCEPT !.attrs = [n \in DOMAIN element.attrs \ {name} |->
                                   element.attrs[n]]]

\* The attribute name of element is present and is a non-numeric string
NonNumeric(element, name) ==
    /\ getAttribute(element, name) # Null
    /\ IsNaN(parseFloat(getAttribute(element, name)))

\* C4: a geometry attribute that is a non-numeric string is read as 0 by
\* getElementBounds and getCircleData, exactly as if it were missing.
C4_MalformedReadsAsZero ==
    Imported =>
        \A i \in DOMAIN svgText : \A name \in GeometryAttributes :
            NonNumeric(svgText[i], name) =>
                /\ getElementBounds(svgText[i])
                       = getElementBounds(WithoutAttribute(svgText[i], name))
                /\ getCircleData(svgText[i])
                       = getCircleData(WithoutAttribute(svgText[i], name))

\* doc with the data-size attribute of its root removed
WithoutDataSize(doc) ==
    [i \in DOMAIN doc |->
        IF \A j \in Matching(doc, TagSvg) : i <= j
        THEN WithoutAttribute(doc[i], "data-size") ELSE doc[i]]

\* The data-size attribute of the root is present but not a positive number
InvalidDataSize ==
    /\ HasRoot
    /\ getAttribute(Root, "data-size") # Null
    /\ ~Gt(parseFloat(getAttribute(Root, "data-size")), Num(0))

\* C5: getSVGWorldSize returns null when the root or its data-size is
\* absent, non-numeric or <= 0 and the positive number otherwise, and never
\* throws; an import whose data-size is invalid gives what the same document
\* without the attribute gives.
C5_WorldSize ==
    Imported =>
        /\ IF ~HasElement(svgText, TagSvg) THEN getSVGWorldSize(svgText) = NullNum
           ELSE IF getAttribute(Root, "data-size") = Null
           THEN getSVGWorldSize(svgText) = NullNum
           ELSE IF ~Gt(parseFloat(getAttribute(Root, "data-size")), Num(0))
           THEN getSVGWorldSize(svgText) = NullNum
           ELSE /\ getSVGWorldSize(svgText)
                       = parseFloat(getAttribute(Root, "data-size"))
                /\ Gt(getSVGWorldSize(svgText), Num(0))
        /\ InvalidDataSize =>
               result = importTrack(WithoutDataSize(svgText), gameConfig)

\* C5 witness: a document with a negative data-size has been imported, with
\* the scale of the 90% policy
C5_Witness ==
    /\ Succeeded
    /\ InvalidDataSize
    /\ Lt(parseFloat(getAttribute(Root, "data-size")), Num(0))
    /\ getSVGWorldSize(svgText) = NullNum


\* getSVGDimensions accepted the declared size
Accepted == HasRoot /\ ~getSVGDimensions(svgText).thrown

SourceSize == getSVGDimensions(svgText).value

\* The scaling importTrack computes for the document and the viewport
Scaling == calculateScalingFactor(SourceSize, gameConfig, getSVGWorldSize(svgText))

ExplicitWorldSize == getSVGWorldSize(svgText) # NullNum

\* The target footprint of the claims: the explicit world size, or 90% of
\* the viewport
TargetWidth ==
    IF ExplicitWorldSize THEN getSVGWorldSize(svgText)
    ELSE Div(Mul(Num(9), gameConfig.worldWidth), Num(10))

TargetHeight ==
    IF ExplicitWorldSize THEN getSVGWorldSize(svgText)
    ELSE Div(Mul(Num(9), gameConfig.worldHeight), Num(10))

ScaledWidth == Mul(SourceSize.width, Scaling.scaleX)

ScaledHeight == Mul(SourceSize.height, Scaling.scaleY)

\* C7: for every source size getSVGDimensions accepts, the scaled source fits
\* within the target footprint and is centred in the viewport; without an
\* explicit world size it lies inside the viewport with a margin of at least
\* 5% of the viewport on each side.
C7_FitsAndCentred ==
    Accepted =>
        /\ Ge(ScaledWidth, Num(0)) /\ Le(ScaledWidth, TargetWidth)
        /\ Ge(ScaledHeight, Num(0)) /\ Le(ScaledHeight, TargetHeight)
        /\ Add(Scaling.offsetX, Div(ScaledWidth, Num(2)))
               = Div(gameConfig.worldWidth, Num(2))
        /\ Add(Scaling.offsetY, Div(ScaledHeight, Num(2)))
               = Div(gameConfig.worldHeight, Num(2))
        /\ ~ExplicitWorldSize =>
               /\ Ge(Scaling.offsetX, Div(gameConfig.worldWidth, Num(20)))
               /\ Ge(Scaling.offsetY, Div(gameConfig.worldHeight, Num(20)))
               /\ Le(Add(Scaling.offsetX, ScaledWidth),
                     Sub(gameConfig.worldWidth, Div(gameConfig.worldWidth, Num(20))))
               /\ Le(Add(Scaling.offsetY, ScaledHeight),
                     Sub(gameConfig.worldHeight, Div(gameConfig.worldHeight, Num(20))))

TrackAreas == extractElementsByColor(svgText, ColorTrackArea)

\* The scaled rectangle of the i-th track-area element
AreaRectangle(i) == svgRectToGameRect(TrackAreas[i], Scaling)

\* The two vertical and the two horizontal sides of a rectangle
SidesX(rect) == {rect.x, Add(rect.x, rect.width)}

SidesY(rect) == {rect.y, Add(rect.y, rect.height)}

\* v lies between lo and hi
Between(lo, v, hi) == Le(lo, v) /\ Le(v, hi)

\* C8: the bounds processTrackArea returns are the minimal axis-aligned box
\* enclosing every track-area element after scaling: every element's scaled
\* rectangle lies inside the bounds and every side of the bounds is a side of
\* some element's scaled rectangle.
C8_BoundsMinimalBox ==
    Succeeded =>
        LET bounds == result.value.bounds
            left   == bounds.x
            right  == Add(bounds.x, bounds.width)
            top    == bounds.y
            bottom == Add(bounds.y, bounds.height)
        IN  /\ bounds = processTrackArea(TrackAreas, Scaling).value
            /\ \A i \in DOMAIN TrackAreas :
                   /\ \A x \in SidesX(AreaRectangle(i)) : Between(left, x, right)
                   /\ \A y \in SidesY(AreaRectangle(i)) : Between(top, y, bottom)
            /\ \E i \in DOMAIN TrackAreas : left \in SidesX(AreaRectangle(i))
            /\ \E i \in DOMAIN TrackAreas : right \in SidesX(AreaRectangle(i))
            /\ \E i \in DOMAIN TrackAreas : top \in SidesY(AreaRectangle(i))
            /\ \E i \in DOMAIN TrackAreas : bottom \in SidesY(AreaRectangle(i))

RoleColors ==
    {ColorTrackArea, ColorWall, ColorObstacle, ColorStartLine, ColorFinishLine}

\* element is of a kind getElementBounds does not support
Unsupported(element) ==
    toLowerCase(element.tagName) \notin {TagRect, TagCircle, TagLine}

\* element is in one of the five role buckets
HasRoleColor(element) ==
    \E color \in RoleColors : Len(extractElementsByColor(<<element>>, color)) = 1

\* doc without its i-th element
RemoveAt(doc, i) == SubSeq(doc, 1, i - 1) \o SubSeq(doc, i + 1, Len(doc))

\* Two imports agree on success and on the compiled track
SameTrack(r1, r2) ==
    /\ r1.thrown = r2.thrown
    /\ ~r1.thrown =>
           /\ r1.value.bounds = r2.value.bounds
           /\ r1.value.walls = r2.value.walls
           /\ r1.value.obstacles = r2.value.obstacles
           /\ r1.value.startPosition = r2.value.startPosition
           /\ r1.value.finishPosition = r2.value.finishPosition

\* C9: an element of an unsupported kind that carries a role colour is
\* ignored: the document with the element compiles to what the document
\* without it compiles to, and succeeds exactly when that one does.
C9_UnsupportedIgnored ==
    HasRoot =>
        \A i \in DOMAIN svgText :
            (i > 1 /\ Unsupported(svgText[i]) /\ HasRoleColor(svgText[i])) =>
                SameTrack(result, importTrack(RemoveAt(svgText, i), gameConfig))

\* Two characters are the same letter, ignoring case
SameCharIgnoringCase(c, d) == c = d \/ UpperChar(c) = d \/ c = UpperChar(d)

\* Two strings are equal ignoring letter case; null equals nothing
EqualIgnoringCase(a, b) ==
    /\ a # Null
    /\ b # Null
    /\ Len(a) = Len(b)
    /\ \A k \in DOMAIN a : SameCharIgnoringCase(a[k], b[k])

\* The indices of the elements whose fill or stroke is the colour
IndicesOfColor(doc, color) ==
    {i \in DOMAIN doc :
        \/ EqualIgnoringCase(getAttribute(doc[i], "fill"), color)
        \/ EqualIgnoringCase(getAttribute(doc[i], "stroke"), color)}

\* found holds exactly the elements of doc at the indices, in document order
IsSelection(found, doc, indices) ==
    /\ Len(found) = Cardinality(indices)
    /\ \A i \in indices :
           found[1 + Cardinality({j \in indices : j < i})] = doc[i]

\* The colours extractElementsByColor is asked for: the role colours and other
\* spellings of them
AskedColors ==
    RoleColors \cup {<<"#", "0", "0", "f", "f", "0", "0">>,
                     <<"#", "f", "f", "D", "7", "0", "0">>,
                     ColorOutOfBounds}

---------------------------------------------------------------------------
(* Claims on the fixtures, the markers and validation                      *)

\* The element counts of the metadata of the track just imported
Counts == result.value.metadata.elementCounts

\* How many elements of the document carry the colour as fill or stroke
CountOfColor(color) == Cardinality(IndicesOfColor(svgText, color))

IsFixture == Imported /\ svgText \in {MOCK_TRACK_SVG, svgWithoutLines}

StartLines == extractElementsByColor(svgText, ColorStartLine)

FinishLines == extractElementsByColor(svgText, ColorFinishLine)

\* The centre of a rectangle
CentreOf(rect) ==
    [x |-> Add(rect.x, Div(rect.width, Num(2))),
     y |-> Add(rect.y, Div(rect.height, Num(2)))]

\* The position the claim gives for a bucket: null for an empty one, else
\* the centre of the scaled rectangle of its first element
PositionOfFirst(bucket) ==
    IF Len(bucket) = 0 THEN NullShape
    ELSE CentreOf(svgRectToGameRect(bucket[1], Scaling))

\* The elements of the document after the first element of the colour
LaterOfColor(color) ==
    {i \in IndicesOfColor(svgText, color) :
        \E j \in IndicesOfColor(svgText, color) : j < i}

\* The two positions of an import that succeeded
Positions(r) == <<r.value.startPosition, r.value.finishPosition>>

\* doc with its i-th element replaced by e
ReplaceAt(doc, i, e) == [doc EXCEPT ![i] = e]

\* C12: startPosition (finishPosition) is null exactly when the start
\* (finish) bucket is empty and otherwise the centre of the scaled rectangle
\* of the bucket's first element; removing or changing a later element of a
\* bucket, or adding one after its first element, changes neither position
\* of that bucket.
C12_FirstMarkerOnly ==
    Succeeded =>
        /\ result.value.startPosition = PositionOfFirst(StartLines)
        /\ result.value.finishPosition = PositionOfFirst(FinishLines)
        /\ (result.value.startPosition = NullShape) <=> (Len(StartLines) = 0)
        /\ (result.value.finishPosition = NullShape) <=> (Len(FinishLines) = 0)
        /\ \A i \in LaterOfColor(ColorStartLine) \cup LaterOfColor(ColorFinishLine) :
              /\ ~importTrack(RemoveAt(svgText, i), gameConfig).thrown
                    => Positions(importTrack(RemoveAt(svgText, i), gameConfig))
                           = Positions(result)
              /\ \A e \in {StartLine, StartLineWide} :
                    i \in LaterOfColor(ColorStartLine)
                        => Positions(importTrack(ReplaceAt(svgText, i, e), gameConfig))
                               = Positions(result)
              /\ \A e \in {FinishRect, FinishLineLow} :
                    i \in LaterOfColor(ColorFinishLine)
                        => Positions(importTrack(ReplaceAt(svgText, i, e), gameConfig))
                               = Positions(result)
        /\ \A e \in {StartLine, StartLineWide} :
              Len(StartLines) > 0
                  => Positions(importTrack(Append(svgText, e), gameConfig))
                         = Positions(result)
        /\ \A e \in {FinishRect, FinishLineLow} :
              Len(FinishLines) > 0
                  => Positions(importTrack(Append(svgText, e), gameConfig))
                         = Positions(result)

\* C12 witness: a track with two different start elements has been imported
\* and starts at the centre of the first, which is not the centre of the
\* second
C12_Witness ==
    /\ Succeeded
    /\ Len(StartLines) = 2
    /\ result.value.startPosition = CentreOf(svgRectToGameRect(StartLines[1], Scaling))
    /\ result.value.startPosition # CentreOf(svgRectToGameRect(StartLines[2], Scaling))
    /\ result.value.finishPosition = NullShape

\* validateTrackData has returned; result.value is the track it was given
Validated == pc = "validated"

\* The track validated came from importTrack (and not from the caller's pen)
ValidatedImport == Validated /\ svgText # NoDocument

Track == result.value

\* element is among the elements of the sequence
Has(list, element) == \E i \in DOMAIN list : list[i] = element

\* C13: validateTrackData never throws and does not modify the track; isValid
\* is true exactly when bounds.width > 0 and bounds.height > 0; each warning
\* (no start position, no finish position, no walls, no obstacles, width or
\* height above 10000) is present exactly when its condition holds, and no
\* warning affects isValid.
C13_Validation ==
    Validated =>
        /\ DOMAIN validation = {"isValid", "errors", "warnings"}
        /\ validation.isValid
               <=> (Gt(Track.bounds.width, Num(0)) /\ Gt(Track.bounds.height, Num(0)))
        /\ validation.isValid <=> validation.errors = <<>>
        /\ Has(validation.warnings, "No start line found in track")
               <=> Track.startPosition = NullShape
        /\ Has(validation.warnings, "No finish line found in track")
               <=> Track.finishPosition = NullShape
        /\ Has(validation.warnings, "No walls found in track")
               <=> Len(Track.walls) = 0
        /\ Has(validation.warnings, "No obstacles found in track")
               <=> Len(Track.obstacles) = 0
        /\ Has(validation.warnings, "Track is very large and may impact performance")
               <=> (Gt(Track.bounds.width, Num(10000))
                       \/ Gt(Track.bounds.height, Num(10000)))

NoMarkerElements == Len(StartLines) = 0 /\ Len(FinishLines) = 0

BothMarkerWarnings ==
    /\ Has(validation.warnings, "No start line found in track")
    /\ Has(validation.warnings, "No finish line found in track")

\* C14 as claimed: a successfully imported document without start-line and
\* finish-line elements has both positions null, and validateTrackData on it
\* gives both warnings and isValid true.
C14_Original ==
    (ValidatedImport /\ NoMarkerElements) =>
        /\ Track.startPosition = NullShape
        /\ Track.finishPosition = NullShape
        /\ BothMarkerWarnings
        /\ validation.isValid

\* C14 as amended: such a document has both positions null and both
\* warnings; isValid is true unless the bounds of the track have a width or
\* a height <= 0 (a track area of height 0, say), and then the only error is
\* 'Track bounds are invalid'.
C14_NoMarkers ==
    (ValidatedImport /\ NoMarkerElements) =>
        /\ Track.startPosition = NullShape
        /\ Track.finishPosition = NullShape
        /\ BothMarkerWarnings
        /\ IF Le(Track.bounds.width, Num(0)) \/ Le(Track.bounds.height, Num(0))
           THEN /\ ~validation.isValid
                /\ validation.errors = <<"Track bounds are invalid">>
           ELSE /\ validation.isValid
                /\ validation.errors = <<>>

\* C14 witness: the 'without start/finish lines' document in the track-area
\* colour has been imported and validated: valid, with both warnings
C14_Witness ==
    /\ ValidatedImport
    /\ svgText = GreenWithoutLines
    /\ Track.startPosition = NullShape
    /\ Track.finishPosition = NullShape
    /\ validation.isValid
    /\ BothMarkerWarnings

\* The compiled shapes of the document just imported
Walls == processWalls(extractTrackElements(svgText).walls, Scaling)

Obstacles == processObstacles(extractTrackElements(svgText).obstacles, Scaling).value

Markers ==
    processStartFinishLines(extractTrackElements(svgText).startLines,
                            extractTrackElements(svgText).finishLines, Scaling)

NonNegative(a) == Ge(a, Num(0))

\* The invariant of the data model for a rectangle or a circle
ShapeInvariant(shape) ==
    IF isGameCircle(shape) THEN NonNegative(shape.radius)
    ELSE NonNegative(shape.width) /\ NonNegative(shape.height)

\* C15: every shape a successful import produces has width >= 0 and
\* height >= 0 if it is a rectangle (track bounds, wall, rectangular obstacle,
\* start or finish marker) and radius >= 0 if it is a circle.
C15_ShapeInvariants ==
    Succeeded =>
        /\ ShapeInvariant(result.value.bounds)
        /\ \A i \in DOMAIN Walls : ShapeInvariant(Walls[i].shape)
        /\ \A i \in DOMAIN Obstacles : ShapeInvariant(Obstacles[i].shape)
        /\ Markers.startLine # NullShape => ShapeInvariant(Markers.startLine)
        /\ Markers.finishLine # NullShape => ShapeInvariant(Markers.finishLine)

\* The rectangle body the claim gives for a shape
IsBodyOfRect(body, shape) ==
    /\ body.kind = "rectangle"
    /\ body.x = Add(shape.x, Div(shape.width, Num(2)))
    /\ body.y = Add(shape.y, Div(shape.height, Num(2)))
    /\ body.width = shape.width
    /\ body.height = shape.height
    /\ body.options.isStatic

\* The circle body the claim gives for a shape
IsBodyOfCircle(body, shape) ==
    /\ body.kind = "circle"
    /\ body.x = shape.x
    /\ body.y = shape.y
    /\ body.radius = shape.radius
    /\ body.options.isStatic

IsCircleElement(element) == toLowerCase(element.tagName) = TagCircle

\* C17: one static body per compiled shape, in the same order: a rectangle
\* body for every wall; for an obstacle a circle body at (x, y) with the
\* radius exactly when its source element is a circle, else a rectangle
\* body; every rectangle body is centred at (x + width/2, y + height/2) and
\* has the width and height of the shape.
C17_OneBodyPerShape ==
    Succeeded =>
        /\ Len(result.value.walls) = Len(Walls)
        /\ \A i \in DOMAIN Walls : IsBodyOfRect(result.value.walls[i], Walls[i].shape)
        /\ Len(result.value.obstacles) = Len(Obstacles)
        /\ \A i \in DOMAIN Obstacles :
              IF IsCircleElement(extractTrackElements(svgText).obstacles[i])
              THEN IsBodyOfCircle(result.value.obstacles[i], Obstacles[i].shape)
              ELSE IsBodyOfRect(result.value.obstacles[i], Obstacles[i].shape)

\* C17 witness: the imported track has two wall bodies, a circle body for
\* its circular obstacle and a centred rectangle body for its rectangular one
C17_Witness ==
    /\ Succeeded
    /\ svgText = GreenTrackSvg
    /\ Len(result.value.walls) = 2
    /\ result.value.walls[1].x # Walls[1].shape.x
    /\ result.value.obstacles[1].kind = "circle"
    /\ result.value.obstacles[2].kind = "rectangle"

Thicknesses == {NullNum, Num(0), Num(50), Num(200)}

\* The scene with physics and an empty world
EmptyScene == [physics |-> TRUE, world |-> <<>>]

\* C18: a successful import has an empty boundaries list, whatever the track
\* bounds and the thickness, so that adding the track to a scene adds its
\* wall bodies and its obstacle bodies and nothing else.
C18_NoBoundaries ==
    Succeeded =>
        /\ result.value.boundaries = <<>>
        /\ \A thickness \in Thicknesses :
              createInvisibleBoundary(result.value.bounds, thickness) = <<>>
        /\ addTrackToScene(result.value, EmptyScene)
               = Returned([physics |-> TRUE,
                           world |-> result.value.walls \o result.value.obstacles])

\* C18 witness: a track with walls and obstacles and bounds of positive size
\* has been imported without any boundary body
C18_Witness ==
    /\ Succeeded
    /\ Len(result.value.walls) > 0
    /\ Len(result.value.obstacles) > 0
    /\ Gt(result.value.bounds.width, Num(0))
    /\ result.value.boundaries = <<>>
    /\ Len(addTrackToScene(result.value, EmptyScene).value.world) = 4

---------------------------------------------------------------------------
(* Claims on the main menu, the physics adapter and the Game scene         *)

\* An attempt (handleSVGFile or loadDefaultTrack) ends in this step
AttemptEnds ==
    \/ fileImport # NoFile /\ fileImport' = NoFile
    \/ defaultLoad /\ ~defaultLoad'

\* The console lines of an attempt whose import threw or whose validation
\* failed
FailureLines ==
    {"Track validation failed:", "Error importing SVG track:",
     "Default track validation failed:", "Error loading default track:"}

\* The Game scene is started in this step
GameStarted == scene # "GameStarting" /\ scene' = "GameStarting"

\* C16: the registry entry 'importedTrack' is only ever written with a track
\* for which validateTrackData returned isValid = true; an attempt whose
\* import throws or whose validation fails leaves the entry unchanged and
\* does not start the Game scene.
C16_RegistryOnlyValid ==
    /\ [](registry # NoTrack => validateTrackData(registry).isValid)
    /\ [][/\ registry' # registry =>
                /\ AttemptEnds
                /\ logged' \notin FailureLines
                /\ validateTrackData(registry').isValid
          /\ (AttemptEnds /\ logged' \in FailureLines) =>
                /\ registry' = registry
                /\ ~GameStarted
                /\ scene' = scene]_vars

\* C16 witness: with a track in the registry, a later attempt has failed
\* validation, and the entry and the scene are as they were
C16_Witness ==
    /\ scene = "MainMenu"
    /\ registry # NoTrack
    /\ validateTrackData(registry).isValid
    /\ logged = "Track validation failed:"
    /\ message = "Track invalid: Track bounds are invalid"
    /\ fileImport = NoFile

\* The set of bodies in a world
BodySet(composite) == {composite[i] : i \in DOMAIN composite}

\* C19: on the set of bodies in the world, adding the same bodies twice
\* leaves the world as after adding once, removing them twice as after
\* removing once; removing bodies the world does not contain, or from a
\* scene without physics, changes nothing and raises no error.
C19_Idempotent ==
    \A bodies \in BodyLists :
        /\ physics =>
              BodySet(addBodiesWithPhysics(
                          addBodiesWithPhysics(TheScene, bodies).value, bodies).value.world)
                  = BodySet(addBodiesWithPhysics(TheScene, bodies).value.world)
        /\ BodySet(removeBodiesFromPhysics(
                       removeBodiesFromPhysics(TheScene, bodies), bodies).world)
               = BodySet(removeBodiesFromPhysics(TheScene, bodies).world)
        /\ BodySet(bodies) \cap BodySet(world) = {}
               => removeBodiesFromPhysics(TheScene, bodies) = TheScene
        /\ ~physics => removeBodiesFromPhysics(TheScene, bodies) = TheScene

\* The Game scene is left in this step (for the menu, or to be started anew)
GameLeft == scene = "Game" /\ scene' # "Game"

\* C20: when the Game scene is torn down, the bodies of the track it had
\* loaded are explicitly removed from the world, and a Game scene that has
\* loaded a track has only that track's bodies in its world.
C20_PreviousBodiesRemoved ==
    /\ [](scene = "Game" /\ currentTrack # NoTrack
            => BodySet(world) \subseteq BodySet(BodiesOf(currentTrack)))
    /\ [][(GameLeft /\ currentTrack # NoTrack) =>
              /\ logged' = "Track removed from scene"
              /\ BodySet(world') \cap BodySet(BodiesOf(currentTrack)) = {}]_vars

---------------------------------------------------------------------------
(* C21.  importTrack is a function of its two arguments only: a call with  *)
(* the source text and the viewport of an earlier call returns the track   *)
(* (bounds, shapes, bodies, positions, metadata) or throws the error of    *)
(* the earlier call, whatever calls, successful or failed, were made in    *)
(* between.                                                                *)

\* The call that has returned has the arguments of the remembered call
SameArguments ==
    /\ pc = "imported"
    /\ previous # NoPrevious
    /\ previous.svgText = svgText
    /\ previous.gameConfig = gameConfig

---------------------------------------------------------------------------
(* C22.  isOutOfBounds(position, bounds) is true exactly when position.x   *)
(* < bounds.x, or position.x > bounds.x + bounds.width, or position.y <    *)
(* bounds.y, or position.y > bounds.y + bounds.height; a position on an    *)
(* edge or a corner of the bounds is in bounds.  The arguments are whole   *)
(* numbers, and the claim is stated on the integers.                       *)

IsOutOfBoundsCalled == called.function = "isOutOfBounds"

\* The whole number a holds
Whole(a) == a[1]

\* The call's position lies beyond an edge of the call's bounds
BeyondAnEdge ==
    \/ Whole(called.position.x) < Whole(called.trackBounds.x)
    \/ Whole(called.position.x) >
            Whole(called.trackBounds.x) + Whole(called.trackBounds.width)
    \/ Whole(called.position.y) < Whole(called.trackBounds.y)
    \/ Whole(called.position.y) >
            Whole(called.trackBounds.y) + Whole(called.trackBounds.height)

C22_OutsideExactly == IsOutOfBoundsCalled => (returned <=> BeyondAnEdge)

\* A position on the far corner of the bounds is found in bounds
C22_Witness ==
    /\ IsOutOfBoundsCalled
    /\ Whole(called.trackBounds.width) > 0
    /\ Whole(called.position.x) =
            Whole(called.trackBounds.x) + Whole(called.trackBounds.width)
    /\ Whole(called.position.y) =
            Whole(called.trackBounds.y) + Whole(called.trackBounds.height)
    /\ returned = FALSE

---------------------------------------------------------------------------
(* C23.  getElementBounds returns the axis-aligned box of a supported      *)
(* shape: a rectangle's own x, y, width and height; for a circle the box   *)
(* of side 2*r centred on (cx, cy); for a line x = min(x1,x2) - sw/2, y =  *)
(* min(y1,y2) - sw/2, width = |x2-x1| + sw, height = |y2-y1| + sw, sw      *)
(* being the stroke width, 1 when unspecified.  The attributes are         *)
(* numerals.                                                               *)

GetElementBoundsCalled == called.function = "getElementBounds"

\* The smaller and the distance of two numbers, neither being NaN
Smaller(a, b) == IF Lt(a, b) THEN a ELSE b

Distance(a, b) == IF Lt(a, b) THEN Sub(b, a) ELSE Sub(a, b)

\* The stroke width of the call's line
StrokeWidth == IF called.numbers[5] = NullNum THEN Num(1) ELSE called.numbers[5]

\* The centre of a box
BoxCentre(box) ==
    [x |-> Add(box.x, Div(box.width, Num(2))),
     y |-> Add(box.y, Div(box.height, Num(2)))]

BoxOfRect ==
    returned = [x |-> called.numbers[1], y |-> called.numbers[2],
                width |-> called.numbers[3], height |-> called.numbers[4]]

BoxOfCircle ==
    /\ returned.width = Mul(Num(2), called.numbers[3])
    /\ returned.height = returned.width
    /\ BoxCentre(returned) = [x |-> called.numbers[1], y |-> called.numbers[2]]

BoxOfLine ==
    /\ returned.x = Sub(Smaller(called.numbers[1], called.numbers[3]),
                        Div(StrokeWidth, Num(2)))
    /\ returned.y = Sub(Smaller(called.numbers[2], called.numbers[4]),
                        Div(StrokeWidth, Num(2)))
    /\ returned.width = Add(Distance(called.numbers[1], called.numbers[3]),
                            StrokeWidth)
    /\ returned.height = Add(Distance(called.numbers[2], called.numbers[4]),
                             StrokeWidth)

C23_BoxOfShape ==
    GetElementBoundsCalled =>
        /\ called.element.tagName = TagRect => BoxOfRect
        /\ called.element.tagName = TagCircle => BoxOfCircle
        /\ called.element.tagName = TagLine => BoxOfLine

\* A line drawn from right to left, its stroke width unspecified: the box
\* starts at the second end point less one half and is 1 wider than the line
C23_Witness ==
    /\ GetElementBoundsCalled
    /\ called.element.tagName = TagLine
    /\ called.numbers = <<Num(200), Num(150), Num(100), Num(150), NullNum>>
    /\ returned = [x |-> Norm(199, 2), y |-> Norm(299, 2),
                   width |-> Num(101), height |-> Num(1)]

---------------------------------------------------------------------------
(* C30.  Whether an element is in a role bucket depends on its own fill    *)
(* and stroke alone, and the buckets are not exclusive: an element whose   *)
(* fill is one role colour and whose stroke is another is in both buckets, *)
(* and an element matching a colour by fill and by stroke is in that       *)
(* bucket once.                                                            *)

ExtractTrackElementsCalled == called.function = "extractTrackElements"

\* The fill or the stroke of the element is the colour
PaintedIn(element, color) ==
    \/ getAttribute(element, "fill") = color
    \/ getAttribute(element, "stroke") = color

\* The bucket holds the elements of the call's document painted in the
\* colour, each once and in document order
BucketOf(bucket, color) ==
    \E at \in [DOMAIN bucket -> DOMAIN called.doc] :
        /\ \A i, j \in DOMAIN bucket : i < j => at[i] < at[j]
        /\ \A i \in DOMAIN bucket : bucket[i] = called.doc[at[i]]
        /\ {at[i] : i \in DOMAIN bucket}
                = {k \in DOMAIN called.doc : PaintedIn(called.doc[k], color)}

C30_BucketsOverlap ==
    ExtractTrackElementsCalled =>
        /\ BucketOf(returned.trackAreas, ColorTrackArea)
        /\ BucketOf(returned.walls, ColorWall)
        /\ BucketOf(returned.obstacles, ColorObstacle)
        /\ BucketOf(returned.startLines, ColorStartLine)
        /\ BucketOf(returned.finishLines, ColorFinishLine)

\* One element filled as a track area and stroked as a wall, another both
\* filled and stroked as a wall: two walls, one track area
C30_Witness ==
    /\ ExtractTrackElementsCalled
    /\ Len(called.doc) = 3
    /\ called.doc[2] = Painted(ColorTrackArea, ColorWall)
    /\ called.doc[3] = Painted(ColorWall, ColorWall)
    /\ returned.trackAreas = <<called.doc[2]>>
    /\ returned.walls = <<called.doc[2], called.doc[3]>>

---------------------------------------------------------------------------
(* C24.  When update finds the puck outside the track bounds and no        *)
(* respawn is in progress, a respawn starts and the puck's velocity is     *)
(* zero at once; when the fade-out completes the puck is put, at rest, on  *)
(* the last in-bounds position update has recorded, or else on the start   *)
(* position, or else on the centre of the track bounds.  The position is   *)
(* kept in lastValidPosition: it is the start position or else the centre  *)
(* when the game starts, update writes to it the in-bounds position it     *)
(* finds, and nothing else writes to it.                                   *)

\* The start position of the track, or else the centre of its bounds
StartOrCentre ==
    IF currentTrack.startPosition # NullShape THEN currentTrack.startPosition
    ELSE getDefaultRespawnPosition(currentTrack.bounds)

PuckOutside == isOutOfBounds(PositionOf(puck), currentTrack.bounds)

\* update finds the puck outside: the respawn starts, the puck stops where
\* it is
RespawnStarts ==
    Update /\ ~isRespawning /\ PuckOutside =>
        /\ isRespawning'
        /\ tween' = "fadeOut"
        /\ puck' = [puck EXCEPT !.velocity = AtRest]

\* update finds the puck inside and records where; nothing else records
Recorded ==
    IF Update /\ ~isRespawning /\ ~PuckOutside
    THEN lastValidPosition' = PositionOf(puck)
    ELSE lastValidPosition' = lastValidPosition

\* The fade-out completes: the puck is at rest on the recorded position
Repositioned ==
    RepositionAndFadeIn => puck' = PuckAt(lastValidPosition)

C24_RespawnAtLastValid ==
    /\ lastValidPosition = StartOrCentre
    /\ [][RespawnStarts /\ Recorded /\ Repositioned]_vars

\* The puck has been put back on a position that update recorded, away from
\* the start position
C24_Witness ==
    /\ tween = "fadeIn"
    /\ PositionOf(puck) = lastValidPosition
    /\ lastValidPosition # StartOrCentre
    /\ puck.velocity = AtRest

---------------------------------------------------------------------------
(* C25.  Control is allowed only when the target of the event is the puck  *)
(* and no respawn is in progress, and the drag handler requires isDragging *)
(* besides: an event with another target, or one that arrives while        *)
(* isRespawning is true, changes neither isDragging, the drag offsets nor  *)
(* the puck's velocity, and isDragging is false whenever isRespawning is   *)
(* true.                                                                   *)

\* A dragstart, drag or dragend event is handled
DragEvent ==
    \/ \E gameObject \in GameObjects : DragStart(gameObject)
    \/ \E offset \in DragOffsets :
            Drag(Sub(ToNumber(startX), offset.x), Sub(ToNumber(startY), offset.y))
    \/ DragEnd

\* The game object of the event handled: the one Phaser drags once the
\* dragstart has been handled, and until the dragend has
EventTarget == IF pointer = "none" THEN pointer' ELSE pointer

ControlRefused ==
    DragEvent /\ (isRespawning \/ EventTarget # "puck") =>
        UNCHANGED <<isDragging, startX, startY, diffX, diffY, puck>>

DragRefused ==
    DragEvent /\ pointer # "none" /\ pointer' # "none" /\ ~isDragging =>
        UNCHANGED <<isDragging, startX, startY, diffX, diffY, puck>>

C25_NoControlWhileRespawning ==
    /\ [](isRespawning => ~isDragging)
    /\ [][ControlRefused /\ DragRefused]_vars

\* The puck is held during a respawn and no dragstart has ever been accepted
C25_Witness ==
    /\ isRespawning
    /\ pointer = "puck"
    /\ startX = NullNum
    /\ ~isDragging

---------------------------------------------------------------------------
(* C26.  During a drag the camera only zooms out: between a dragstart on   *)
(* the puck and its dragend, whatever drag, wheel and update events come   *)
(* in between, every zoom target given to the camera is at most the zoom   *)
(* the camera has.                                                         *)

\* The puck is held before and after the step: the step is neither the
\* dragstart nor the dragend
DuringDrag == pointer = "puck" /\ pointer' = "puck"

C26_ZoomOutOnly ==
    [][DuringDrag => Le(cameraZoom', cameraZoom)]_vars

---------------------------------------------------------------------------
(* C27.  Every respawn that starts finishes: the fade-out and the fade-in  *)
(* completing, isRespawning becomes false again; and while a respawn is in *)
(* progress no second one starts and lastValidPosition is not written.     *)

\* A fade-out starts
FadeOutStarts == tween # "fadeOut" /\ tween' = "fadeOut"

C27_RespawnFinishes ==
    /\ isRespawning ~> ~isRespawning
    /\ [][isRespawning => ~FadeOutStarts /\ lastValidPosition' = lastValidPosition]_vars

\* A respawn past its fade-out, the puck elsewhere than it was left
C27_Witness ==
    /\ isRespawning
    /\ tween = "fadeIn"
    /\ puck.velocity = AtRest
    /\ currentTrack.startPosition = NullShape

---------------------------------------------------------------------------
(* C28.  From the setup of the scene onwards lastValidPosition is a        *)
(* position that is not out of bounds for the current track, so that the   *)
(* puck is within the track bounds when a respawn completes, and a         *)
(* completed respawn is not followed by another one unless the puck has    *)
(* moved.                                                                  *)

C28_LastValidInBounds ==
    Playing =>
        /\ ~isOutOfBounds(lastValidPosition, currentTrack.bounds)
        /\ tween = "fadeIn" => ~PuckOutside

---------------------------------------------------------------------------
(* C29.  A dragend sets the puck's velocity only if a drag is in progress  *)
(* (isDragging is true) at that moment: a drag that a respawn has          *)
(* cancelled does not launch the puck when the pointer is let go after the *)
(* respawn.                                                                *)

C29_ReleaseOnlyWhileDragging ==
    [][DragEnd /\ ~isDragging => puck' = puck]_vars

====
